---- MODULE Spec2Model ----
(***************************************************************************)
(* State-machine model of the CROPS price tracker:                         *)
(*   backend/app/scrapers/scraper_manager.py  (ScraperManager)             *)
(*   backend/app/api/scraper.py               (trigger / status / stop)    *)
(*   backend/app/api/prices.py                (price change, trends)       *)
(*   backend/app/tasks/scraping_tasks.py      (scrape_all_stores_task)     *)
(*   server/app/services/data_processor.py    (DataProcessor)              *)
(*   server/app/services/price_service.py     (PriceService)               *)
(*   server/app/utils/category_classifier.py  (CategoryClassifier)         *)
(*                                                                         *)
(* Persistence is modelled at the level of what another database session   *)
(* can read.  A Store instance belongs to the session that loaded it; an   *)
(* assignment to store.status only marks that instance dirty, and the new  *)
(* value reaches the database when the OWNING session commits.  The        *)
(* sessions that _scrape_store_safe opens and commits hold no objects, so  *)
(* their commits write nothing.  obj* variables are the dirty attribute    *)
(* values held by the owning session, db* variables are committed rows.    *)
(* The database rejects a write only where faulty is set; a rejected       *)
(* INSERT fails the flush that sends it, the Session is unusable until     *)
(* rollback(), and rollback() expires every instance the Session holds.    *)
(*                                                                         *)
(* The reconciler runs its loop on a Session and commits later; between    *)
(* the two another Session may commit.  A commit applies the Session's     *)
(* pending UPDATEs and INSERTs at once or, when it raises, not at all.     *)
(* Text is a sequence of characters, a percentage an exact fraction.       *)
(***************************************************************************)
EXTENDS Integers, Sequences, FiniteSets, TLC

\* ---------------------------------------------------------------- bounds
NStores == 2
MaxTime == 2
MaxRuns == 1
\* background tasks the worker starts
MaxTasks == 2
\* longest batch handed to the reconciler or to the save step
MaxBatch == 2
\* reconciliation runs in flight at once, each on its own Session
NSessions == 2
\* reconciliation runs started per Session
MaxLedgerRuns == 1
\* longest scraped name handed to a function
MaxName == 3
\* most products in the table _find_matching_product reads
MaxProducts == 2
\* most PriceHistory rows in the table the price change is computed from
MaxHistory == 2

Stores == 1..NStores
\* ids a caller may pass; NStores + 1 is the id of no store
StoreIds == 1..(NStores + 1)

\* ------------------------------------------------------ program constants
\* keys of ScraperManager.scrapers
scrapers ==
    {"gourmet_scraper", "rdna_scraper", "metro_scraper", "spinneys_scraper",
     "rabbit_scraper", "talabat_scraper", "instashop_scraper", "breadfast_scraper"}

\* values of Store.status
StatusValues == {"idle", "scraping", "online", "offline"}

\* Store.scraper_module as configured: a registered key, an unregistered
\* key, or no value
ModuleValues == {"gourmet_scraper", "legacy_scraper", "none"}

\* timedelta(days=1) in ticks of the clock: a tick is 12 hours
Day == 2

\* the time at which the price change is asked for
ChangeNow == 2 * Day

\* Price.price and PriceHistory.price values as found in the tables
PriceValues == {0, 3, 4, 5}

\* what a query for Store.last_scraped returns before the first success
NoTime == 0

\* a dirty attribute of a loaded Store instance is <<value>>, a clean one <<>>
Clean == <<>>

\* Text is a sequence of characters over a small alphabet: two letters in
\* both cases, the blank and the comma that separates Product.keywords
LowerChars == {"a", "b"}
UpperChars == {"A", "B"}
Blank == " "
Comma == ","
Chars == LowerChars \cup UpperChars \cup {Blank, Comma}

\* ProductData as far as the persistence code reads it
ProductData(n, p, a) == [name |-> n, price |-> p, is_available |-> a]
Item(n, p) == ProductData(n, p, TRUE)

\* the lists an adapter's scrape() may return
ItemLists ==
    { <<>>, <<Item(<<"a">>, 1), Item(<<"b">>, 2)>> }

\* the product names a caller searches for
SearchNames == { <<"a">>, <<"b">> }

\* the end-to-end scenario: the catalog holds "Cucumbers" with keyword
\* "cucumber"; the store returns "Organic Cucumber" at 12.50 and "Unknown
\* Widget" at 9.99.  "Aa" stands for Cucumbers, "a" for its keyword, "BA"
\* for Organic Cucumber, "BB" for Unknown Widget, 5 and 4 for the prices
Cucumbers == <<"A", "a">>
OrganicCucumber == <<"B", "A">>
UnknownWidget == <<"B", "B">>
ScenarioCatalog == << [name |-> Cucumbers, keywords |-> <<"a">>] >>
ScenarioItems == << Item(OrganicCucumber, 5), Item(UnknownWidget, 4) >>

\* the pre-defined products the reconciler tracks, in query order
Catalog ==
    << [name |-> <<"a">>, keywords |-> <<"a">>],
       [name |-> <<"b">>, keywords |-> <<"b">>] >>

\* ProductData a scraper may hand to the persistence code: two names that
\* resolve to the first product, an empty name, a price of zero, and a name
\* no product matches
LedgerItems ==
    { ProductData(<<"A">>, 1, TRUE), ProductData(<<"a", "b">>, 2, FALSE),
      ProductData(<<>>, 1, TRUE), ProductData(<<"A">>, 0, TRUE),
      ProductData(<<Blank>>, 1, TRUE) }

LedgerBatches ==
    UNION { [1..n -> LedgerItems] : n \in 0..MaxBatch }

Sessions == 1..NSessions

\* texts of at most n characters
TextsUpTo(n) == UNION { [1..k -> Chars] : k \in 0..n }

\* Product.keywords values: one keyword, an upper-case keyword, a keyword
\* with an inner blank, a list written "b, a", a list with an empty piece,
\* and the empty text
KeywordTexts ==
    { <<"a">>, <<"B">>, <<"a", Blank, "b">>, <<"b", Comma, Blank, "a">>,
      <<"a", "b", Comma>>, <<>> }

\* keywords of CategoryClassifier.category_keywords: lower-case words, one
\* of them two words long and ending in another keyword ("cherry tomato")
ClassifierKeywords ==
    { <<"a">>, <<"b">>, <<"b", Blank, "a">>, <<"a", "b">> }

\* longest keyword list per category
MaxKeywords == 2

KeywordLists == UNION { [1..n -> ClassifierKeywords] : n \in 0..MaxKeywords }

\* the values of category_keywords: a list for "A" and a list for "B"
KeywordTables == [A : KeywordLists, B : KeywordLists]

\* PriceHistory rows of two products of store 1, recorded before ChangeNow
HistoryRows ==
    [product : {<<"a">>, <<"b">>}, store : {1}, price : PriceValues,
     is_available : {TRUE}, recorded_at : 0..(ChangeNow - 1)]

\* PriceHistory tables, rows in insertion order
HistoryTables ==
    { h \in UNION { [1..n -> HistoryRows] : n \in 0..MaxHistory } :
        \A j \in 1..Len(h) : \A k \in 1..Len(h) :
            j < k => h[j].recorded_at <= h[k].recorded_at }

\* the Price row whose change is computed
CurrentRows ==
    [product : {<<"a">>}, store : {1}, price : PriceValues,
     is_available : {TRUE}]

\* the Product tables db.query(Product).all() may return
ProductTables ==
    UNION { [1..n -> [name : {<<"a">>}, keywords : KeywordTexts]] :
              n \in 0..MaxProducts }

\* the largest value of the query parameter days that is asked for
MaxDays == 2

\* the prices recorded in the PriceHistory rows a trend is asked over
TrendPrices == {3, 4}

\* PriceHistory rows of two products in every store, recorded before ChangeNow
TrendRows ==
    [product : {<<"a">>, <<"b">>}, store : 1..NStores, price : TrendPrices,
     is_available : {TRUE}, recorded_at : 0..(ChangeNow - 1)]

\* PriceHistory tables, rows in insertion order
TrendTables ==
    { h \in UNION { [1..n -> TrendRows] : n \in 0..MaxHistory } :
        \A j \in 1..Len(h) : \A k \in 1..Len(h) :
            j < k => h[j].recorded_at <= h[k].recorded_at }

\* the store configurations setup may have produced: active stores with each
\* kind of scraper_module, and a deactivated store
StoreRows ==
    [is_active : {TRUE}, scraper_module : ModuleValues]
        \cup [is_active : {FALSE}, scraper_module : {"gourmet_scraper"}]

VARIABLES
    stores,      \* store id -> [is_active, scraper_module]
    dbStatus,    \* store id -> committed Store.status
    dbLast,      \* store id -> committed Store.last_scraped
    dbProducts,  \* committed Product rows, in query order
    dbPrices,    \* committed Price rows
    dbHistory,   \* committed PriceHistory rows, in insertion order
    now,         \* datetime.utcnow()
    runs,        \* calls of the manager started so far
    \* ---- scrape_all_stores
    bpc,         \* position of scrape_all_stores
    store_names, \* attempted stores, in task order
    tpc,         \* store id -> position of its _scrape_store_safe task
    tResult,     \* store id -> value the task returned
    bObjStatus,  \* store id -> dirty status held by the batch session
    bObjLast,    \* store id -> dirty last_scraped held by the batch session
    all_results, \* store id -> items, the map built after gather
    bSaved,      \* number of entries of all_results already saved
    bRet,        \* the returned map
    \* ---- scrape_single_store
    spc,         \* position of scrape_single_store
    sStore,      \* its store_id argument
    sObjStatus,  \* dirty status held by its session
    sObjLast,    \* dirty last_scraped held by its session
    sProducts,   \* products returned by _scrape_store_safe
    sRet,        \* the returned list
    \* ---- API responses
    stopResp,    \* affected_stores of the last stop
    bgTasks,     \* background tasks queued and not started: 0 stands for
                 \* scrape_all_stores_task, a store id for scrape_store_task
    taskRuns,    \* background tasks the worker has started so far
    qpc,         \* search_product_across_stores: idle, gather, returned
    qName,       \* the product_name searched for
    qTask,       \* per store: none, created, done (search task)
    qResult,     \* per store: what _search_product_in_store returned
    qOut,        \* per store: none, ok, raised (what search_product did)
    qItems,      \* per store: the list search_product returned
    qRet,        \* the map search_product_across_stores returned
    \* ---- history variables
    adapterOut,  \* store id -> outcome of the adapter call of the running batch
    adapterItems,\* store id -> items that adapter call returned
    invoked,     \* store id -> adapter calls made by the running batch
    sPath,       \* how the last scrape_single_store call ended
    sInvoked,    \* adapter calls made by the last scrape_single_store call
    stopHit,     \* stores whose task was in flight at a stop
    \* ---- DataProcessor.process_scraped_data, one call per Session
    autoflush,   \* whether a query flushes the Session's pending rows first
    faulty,      \* whether the database may reject an INSERT
    lpc,         \* session -> position of its process_scraped_data call
    lOps,        \* session -> pending [upd, ins, hist, stale] of the Session
    lruns,       \* session -> calls started so far
    \* ---- calls of the pure functions
    fnArgs,      \* the arguments of the call
    fnRet        \* <<>> before the call returns, <<value>> after

dbVars == <<dbStatus, dbLast, dbProducts, dbPrices>>
batchVars == <<bpc, store_names, tpc, tResult, bObjStatus, bObjLast,
               all_results, bSaved, bRet, adapterOut, adapterItems, invoked>>
singleVars == <<spc, sStore, sObjStatus, sObjLast, sProducts, sRet,
                sPath, sInvoked>>
apiVars == <<stopResp, bgTasks, taskRuns>>
ledgerVars == <<dbHistory, autoflush, faulty, lpc, lOps, lruns>>
fnVars == <<fnArgs, fnRet>>
searchVars == <<qpc, qName, qTask, qResult, qOut, qItems, qRet>>
vars == <<stores, dbVars, now, runs, batchVars, singleVars, apiVars, stopHit,
          ledgerVars, fnVars, searchVars>>

\* ------------------------------------------------------------- helpers
\* store.scraper_module and store.scraper_module in self.scrapers
Resolvable(s) ==
    stores[s].scraper_module # "none" /\ stores[s].scraper_module \in scrapers

\* db.query(Store).filter(Store.is_active == True).all(), in id order
ActiveStores == { s \in Stores : stores[s].is_active }

RECURSIVE SeqOfSet(_)
SeqOfSet(S) ==
    IF S = {} THEN <<>>
    ELSE LET m == CHOOSE x \in S : \A y \in S : x <= y
         IN <<m>> \o SeqOfSet(S \ {m})

Range(q) == { q[i] : i \in 1..Len(q) }

\* ------------------------------------------------------------- text
\* str.lower() on one character and on a text
LowerChar(c) == IF c = "A" THEN "a" ELSE IF c = "B" THEN "b" ELSE c

Lower(text) == [i \in 1..Len(text) |-> LowerChar(text[i])]

\* text.split(sep): the pieces between the separators, empty pieces kept
RECURSIVE Split(_, _)
Split(text, sep) ==
    IF \A i \in 1..Len(text) : text[i] # sep THEN <<text>>
    ELSE LET i == CHOOSE k \in 1..Len(text) :
                      text[k] = sep /\ \A j \in 1..(k - 1) : text[j] # sep
         IN <<SubSeq(text, 1, i - 1)>>
                \o Split(SubSeq(text, i + 1, Len(text)), sep)

\* text.strip(): leading and trailing blanks removed
RECURSIVE Strip(_)
Strip(text) ==
    IF text # <<>> /\ Head(text) = Blank THEN Strip(Tail(text))
    ELSE IF text # <<>> /\ text[Len(text)] = Blank
           THEN Strip(SubSeq(text, 1, Len(text) - 1))
           ELSE text

\* sub in text
Contains_prefix(sub, text) ==
    Len(sub) <= Len(text) /\ SubSeq(text, 1, Len(sub)) = sub

Contains(sub, text) ==
    \E i \in 0..(Len(text) - Len(sub)) : SubSeq(text, i + 1, i + Len(sub)) = sub

\* what _find_matching_product returns when no product matches
NoProduct == 0

\* the inner loop of _find_matching_product over the keywords of one product
RECURSIVE KeywordHit(_, _)
KeywordHit(keywords, scraped_name) ==
    IF keywords = <<>> THEN FALSE
    ELSE IF Contains(Strip(Head(keywords)), Lower(scraped_name)) THEN TRUE
    ELSE KeywordHit(Tail(keywords), scraped_name)

\* the outer loop, from product i on: the position of the product returned
RECURSIVE MatchFrom(_, _, _)
MatchFrom(products, i, scraped_name) ==
    IF i > Len(products) THEN NoProduct
    ELSE IF KeywordHit(Split(Lower(products[i].keywords), Comma), scraped_name)
           THEN i
           ELSE MatchFrom(products, i + 1, scraped_name)

\* _find_matching_product(db, scraped_name) over db.query(Product).all()
find_matching_product(products, scraped_name) ==
    MatchFrom(products, 1, scraped_name)

\* \w of the regular expressions
IsWordChar(c) == c \in LowerChars \cup UpperChars

\* \b at the position after the first i characters of text
WordBoundary(text, i) ==
    (i >= 1 /\ IsWordChar(text[i]))
        # (i < Len(text) /\ IsWordChar(text[i + 1]))

\* variant: the keyword is searched for without the two \b
Search_substring(keyword, text) ==
    \E i \in 0..(Len(text) - Len(keyword)) :
        SubSeq(text, i + 1, i + Len(keyword)) = keyword

\* re.search(r'\b' + re.escape(keyword) + r'\b', text)
Search(keyword, text) ==
    \E i \in 0..(Len(text) - Len(keyword)) :
        /\ WordBoundary(text, i)
        /\ SubSeq(text, i + 1, i + Len(keyword)) = keyword
        /\ WordBoundary(text, i + Len(keyword))

\* one loop of classify over a keyword list
RECURSIVE AnyKeywordFound(_, _)
AnyKeywordFound(keywords, text) ==
    IF keywords = <<>> THEN FALSE
    ELSE IF Search(Head(keywords), text) THEN TRUE
    ELSE AnyKeywordFound(Tail(keywords), text)

\* CategoryClassifier.classify(product_name), reading self.category_keywords
classify_A_first(category_keywords, product_name) ==
    IF AnyKeywordFound(category_keywords.A, Lower(product_name)) THEN "A"
    ELSE IF AnyKeywordFound(category_keywords.B, Lower(product_name)) THEN "B"
    ELSE "A"

classify(category_keywords, product_name) ==
    IF AnyKeywordFound(category_keywords.B, Lower(product_name)) THEN "B"
    ELSE IF AnyKeywordFound(category_keywords.A, Lower(product_name)) THEN "A"
    ELSE "A"

\* two rows of the same (product_id, store_id)
SamePair(r, q) == r.product = q.product /\ r.store = q.store

\* ------------------------------------------------------- price change
\* a percentage is kept exactly, as a fraction in lowest terms
Abs(n) == IF n < 0 THEN -n ELSE n

RECURSIVE GCD(_, _)
GCD(a, b) == IF b = 0 THEN a ELSE GCD(b, a % b)

Ratio(n, d) ==
    [num |-> n \div GCD(Abs(n), d), den |-> d \div GCD(Abs(n), d)]

\* price_change_percent = 0
Zero == Ratio(0, 1)

\* n / d rounded to the nearest integer, a tie to the even one (d > 0)
RoundHalfEven(n, d) ==
    LET f == n \div d
        rem == n - f * d
    IN IF 2 * rem < d THEN f
       ELSE IF 2 * rem > d THEN f + 1
       ELSE IF f % 2 = 0 THEN f ELSE f + 1

\* round(q, 2)
Round2(q) == Ratio(RoundHalfEven(q.num * 100, q.den), 100)

\* the rows the query  filter(product_id, store_id, recorded_at < yesterday)
\* .order_by(recorded_at.desc()).first()  may return: <<>> for None; rows
\* with equal recorded_at come in no defined order
PreviousChoices_inclusive(history, price, t) ==
    LET older == { k \in 1..Len(history) :
                     /\ SamePair(history[k], price)
                     /\ history[k].recorded_at <= t - Day }
        first == { k \in older : \A j \in older :
                     history[j].recorded_at <= history[k].recorded_at }
    IN IF first = {} THEN { <<>> } ELSE { <<history[k]>> : k \in first }

PreviousChoices(history, price, t) ==
    LET older == { k \in 1..Len(history) :
                     /\ SamePair(history[k], price)
                     /\ history[k].recorded_at < t - Day }
        first == { k \in older : \A j \in older :
                     history[j].recorded_at <= history[k].recorded_at }
    IN IF first = {} THEN { <<>> } ELSE { <<history[k]>> : k \in first }

\* PriceService._format_price_with_change: the price_change_percent it
\* returns for the row the query returned
format_price_with_change(price, previous) ==
    Round2(IF previous # <<>> /\ previous[1].price > 0
             THEN Ratio(100 * (price.price - previous[1].price),
                        previous[1].price)
             ELSE Zero)

\* get_prices_test_no_auth: the price_change_percent of one result
test_no_auth_change(price, previous) ==
    IF previous # <<>>
      THEN IF previous[1].price > 0
             THEN Ratio(100 * (price.price - previous[1].price),
                        previous[1].price)
             ELSE Zero
      ELSE Zero

\* ------------------------------------------------------- the save step
\* variant: a Product is created for every ProductData
SaveProduct_always_create(products, item) ==
    Append(products, [name |-> item.name, keywords |-> Lower(item.name)])

\* the loop body of _save_store_results for one ProductData: find or create
\* the Product by exact name, keywords = name.lower()
SaveProduct(products, item) ==
    IF \E i \in 1..Len(products) : products[i].name = item.name
      THEN products
      ELSE Append(products, [name |-> item.name,
                             keywords |-> Lower(item.name)])

\* the Price row built from one ProductData
PriceRow(product, s, item) ==
    [product |-> product, store |-> s, price |-> item.price,
     is_available |-> item.is_available]

\* ... delete the Price rows of (product, store) and add the new row;
\* price = float(price) if price else 0.0
SavePrice(prices, s, item) ==
    { r \in prices : ~(r.product = item.name /\ r.store = s) }
        \cup { PriceRow(item.name, s, item) }

RECURSIVE SaveProducts(_, _)
SaveProducts(products, items) ==
    IF items = <<>> THEN products
    ELSE SaveProducts(SaveProduct(products, Head(items)), Tail(items))

RECURSIVE SavePrices(_, _, _)
SavePrices(prices, s, items) ==
    IF items = <<>> THEN prices
    ELSE SavePrices(SavePrice(prices, s, Head(items)), s, Tail(items))

\* the items whose INSERT the database may reject; 0 stands for none
RejectChoices(items) == IF faulty THEN 0..Len(items) ELSE {0}

\* the item at which the Session first flushes after item k was added: the
\* Product query of the next item when the Session autoflushes, else the
\* db.flush() after the next new Product; Len(items) + 1 stands for the
\* commit
FlushAfter(products, items, k, flush) ==
    LET later == { j \in (k + 1)..Len(items) :
                     \/ flush
                     \/ SaveProduct(SaveProducts(products, SubSeq(items, 1, j - 1)),
                                    items[j])
                          # SaveProducts(products, SubSeq(items, 1, j - 1)) }
    IN IF later = {} THEN Len(items) + 1
       ELSE CHOOSE j \in later : \A i \in later : j <= i

\* _save_store_results when the database rejects the INSERT of the Price
\* row of item rejected.  The flush that sends the row raises; the inner
\* except logs it and the loop goes on with a Session every statement of
\* which raises, so saved_count stops growing; db.commit() raises and the
\* outer except rolls back whatever the call had written
SaveOutcome(products, prices, s, items, rejected, flush) ==
    IF rejected = 0
      THEN [products |-> SaveProducts(products, items),
            prices |-> SavePrices(prices, s, items),
            saved_count |-> Len(items),
            committed |-> TRUE]
      ELSE [products |-> products,
            prices |-> prices,
            saved_count |-> FlushAfter(products, items, rejected, flush) - 1,
            committed |-> FALSE]

\* db.commit() of a session that holds dirty Store attributes
Flush(committed, dirty) ==
    [s \in Stores |-> IF dirty[s] = Clean THEN committed[s] ELSE dirty[s][1]]

NoDirty == [s \in Stores |-> Clean]

\* -------------------------------------------------------------- Init
\* what a Session holds when nothing is pending
NoOps == [upd |-> {}, ins |-> <<>>, hist |-> <<>>, stale |-> FALSE]

\* nothing has been scraped yet
InitTables ==
    /\ dbPrices = {}
    /\ dbHistory = <<>>
    /\ now = 1

\* no call of the manager, of the API or of the reconciler has started
InitCalls ==
    /\ dbStatus = [s \in Stores |-> "idle"]
    /\ dbLast = [s \in Stores |-> NoTime]
    /\ lpc = [r \in Sessions |-> "idle"]
    /\ lOps = [r \in Sessions |-> NoOps]
    /\ lruns = [r \in Sessions |-> 0]
    /\ runs = 0
    /\ bpc = "idle"
    /\ store_names = <<>>
    /\ tpc = [s \in Stores |-> "none"]
    /\ tResult = [s \in Stores |-> <<>>]
    /\ bObjStatus = NoDirty
    /\ bObjLast = NoDirty
    /\ all_results = <<>>
    /\ bSaved = 0
    /\ bRet = <<>>
    /\ spc = "idle"
    /\ sStore = 1
    /\ sObjStatus = Clean
    /\ sObjLast = Clean
    /\ sProducts = <<>>
    /\ sRet = <<>>
    /\ stopResp = 0
    /\ bgTasks = {}
    /\ taskRuns = 0
    /\ adapterOut = [s \in Stores |-> "none"]
    /\ adapterItems = [s \in Stores |-> <<>>]
    /\ invoked = [s \in Stores |-> 0]
    /\ sPath = "none"
    /\ sInvoked = 0
    /\ stopHit = {}
    /\ qpc = "idle"
    /\ qName = <<>>
    /\ qTask = [s \in Stores |-> "none"]
    /\ qResult = [s \in Stores |-> <<>>]
    /\ qOut = [s \in Stores |-> "none"]
    /\ qItems = [s \in Stores |-> <<>>]
    /\ qRet = <<>>

\* the backend after setup_database: stores seeded, products and prices
\* come from live scraping
Init ==
    /\ stores \in [Stores -> StoreRows]
    /\ dbProducts = <<>>
    /\ autoflush = TRUE
    /\ faulty = FALSE
    /\ InitTables
    /\ InitCalls
    /\ fnArgs = <<>>
    /\ fnRet = <<>>

\* the reconciler's database: the tracked products are pre-defined; the
\* Session factory is configured with or without autoflush
InitLedger ==
    /\ stores = [s \in Stores |->
                   [is_active |-> TRUE, scraper_module |-> "gourmet_scraper"]]
    /\ dbProducts = Catalog
    /\ autoflush \in BOOLEAN
    /\ faulty = FALSE
    /\ InitTables
    /\ InitCalls
    /\ fnArgs = <<>>
    /\ fnRet = <<>>

\* a program that only calls a function
InitFn ==
    /\ stores = [s \in Stores |->
                   [is_active |-> TRUE, scraper_module |-> "gourmet_scraper"]]
    /\ dbProducts = <<>>
    /\ autoflush = TRUE
    /\ faulty = FALSE
    /\ InitCalls
    /\ fnRet = <<>>

\* the clock advances
Tick ==
    /\ now < MaxTime
    /\ now' = now + 1
    /\ UNCHANGED <<stores, searchVars, ledgerVars, fnVars,
                   runs, dbVars, batchVars, singleVars, apiVars, stopHit>>


\* ------------------------------------------------- scrape_all_stores
\* variant: the loop creates a task for every active store
Attempted_unchecked == ActiveStores

\* the stores for which the loop creates a task
Attempted == { s \in ActiveStores : Resolvable(s) }

\* scrape_all_stores up to the await of gather: query the active stores,
\* return {} when there are none, otherwise create one task per store whose
\* scraper_module resolves
scrape_all_stores_call ==
    /\ bpc \in {"idle", "returned"}
    /\ IF ActiveStores = {}
         THEN /\ bpc' = "returned"
              /\ store_names' = <<>>
         ELSE /\ bpc' = "gather"
              /\ store_names' = SeqOfSet(Attempted)
    /\ tpc' = [s \in Stores |->
                 IF ActiveStores # {} /\ s \in Attempted THEN "created" ELSE "none"]
    /\ tResult' = [s \in Stores |-> <<>>]
    /\ bObjStatus' = NoDirty
    /\ bObjLast' = NoDirty
    /\ all_results' = <<>>
    /\ bSaved' = 0
    /\ bRet' = <<>>
    /\ adapterOut' = [s \in Stores |-> "none"]
    /\ adapterItems' = [s \in Stores |-> <<>>]
    /\ invoked' = [s \in Stores |-> 0]
    /\ stopHit' = { h \in stopHit : h[1] # "batch" }
    /\ UNCHANGED <<stores, searchVars, ledgerVars, fnVars,
                   dbVars, now, singleVars, stopResp>>

\* scrape_all_stores called by the scheduler or by a caller of its own
scrape_all_stores_begin ==
    /\ runs < MaxRuns
    /\ runs' = runs + 1
    /\ UNCHANGED <<bgTasks, taskRuns>>
    /\ scrape_all_stores_call

\* the worker starts a queued scrape_all_stores_task
run_scrape_all_stores_task ==
    /\ 0 \in bgTasks
    /\ bgTasks' = bgTasks \ {0}
    /\ taskRuns < MaxTasks
    /\ taskRuns' = taskRuns + 1
    /\ UNCHANGED runs
    /\ scrape_all_stores_call

\* _scrape_store_safe up to the await of scraper.scrape(): the status is
\* assigned on the caller's Store instance, the commit is issued on a
\* fresh session
scrape_store_safe_begin(s) ==
    /\ bpc = "gather"
    /\ tpc[s] = "created"
    /\ tpc' = [tpc EXCEPT ![s] = "inflight"]
    /\ bObjStatus' = [bObjStatus EXCEPT ![s] = <<"scraping">>]
    /\ invoked' = [invoked EXCEPT ![s] = @ + 1]
    /\ UNCHANGED <<stores, searchVars, ledgerVars, fnVars,
                   runs, dbVars, now, bpc, store_names, tResult, bObjLast,
                   all_results, bSaved, bRet, adapterOut, adapterItems,
                   singleVars, apiVars, stopHit>>

\* variant: a successful scrape leaves the store online
scrape_store_safe_ok_online(s, items) ==
    /\ tpc[s] = "inflight"
    /\ tpc' = [tpc EXCEPT ![s] = "done"]
    /\ tResult' = [tResult EXCEPT ![s] = items]
    /\ bObjStatus' = [bObjStatus EXCEPT ![s] = <<"online">>]
    /\ bObjLast' = [bObjLast EXCEPT ![s] = <<now>>]
    /\ adapterOut' = [adapterOut EXCEPT ![s] = "ok"]
    /\ adapterItems' = [adapterItems EXCEPT ![s] = items]
    /\ UNCHANGED <<stores, searchVars, ledgerVars, fnVars,
                   runs, dbVars, now, bpc, store_names, all_results, bSaved,
                   bRet, invoked, singleVars, apiVars, stopHit>>

\* scraper.scrape() returns: status idle, last_scraped utcnow, return products
scrape_store_safe_ok(s, items) ==
    /\ tpc[s] = "inflight"
    /\ tpc' = [tpc EXCEPT ![s] = "done"]
    /\ tResult' = [tResult EXCEPT ![s] = items]
    /\ bObjStatus' = [bObjStatus EXCEPT ![s] = <<"idle">>]
    /\ bObjLast' = [bObjLast EXCEPT ![s] = <<now>>]
    /\ adapterOut' = [adapterOut EXCEPT ![s] = "ok"]
    /\ adapterItems' = [adapterItems EXCEPT ![s] = items]
    /\ UNCHANGED <<stores, searchVars, ledgerVars, fnVars,
                   runs, dbVars, now, bpc, store_names, all_results, bSaved,
                   bRet, invoked, singleVars, apiVars, stopHit>>

\* scraper.scrape() raises: the except branch sets offline and returns []
scrape_store_safe_except(s) ==
    /\ tpc[s] = "inflight"
    /\ tpc' = [tpc EXCEPT ![s] = "done"]
    /\ tResult' = [tResult EXCEPT ![s] = <<>>]
    /\ bObjStatus' = [bObjStatus EXCEPT ![s] = <<"offline">>]
    /\ adapterOut' = [adapterOut EXCEPT ![s] = "raised"]
    /\ UNCHANGED <<stores, searchVars, ledgerVars, fnVars,
                   runs, dbVars, now, bpc, store_names, bObjLast, all_results,
                   bSaved, bRet, adapterItems, invoked, singleVars, apiVars,
                   stopHit>>

\* scraper.scrape() never returns: the manager awaits it without a timeout
scrape_hangs(s) ==
    /\ tpc[s] = "inflight"
    /\ tpc' = [tpc EXCEPT ![s] = "hung"]
    /\ adapterOut' = [adapterOut EXCEPT ![s] = "hung"]
    /\ UNCHANGED <<stores, searchVars, ledgerVars, fnVars,
                   runs, dbVars, now, bpc, store_names, tResult, bObjStatus,
                   bObjLast, all_results, bSaved, bRet, adapterItems, invoked,
                   singleVars, apiVars, stopHit>>

\* variant: the wait ends with the first finished task
GatherReady_first == \E s \in Range(store_names) : tpc[s] = "done"

\* asyncio.gather(*tasks, return_exceptions=True) completes
GatherReady == \A s \in Range(store_names) : tpc[s] = "done"

\* variant: one failed task fails the whole batch, which returns {}
GatherResults_failfast ==
    IF \E s \in Range(store_names) : adapterOut[s] = "raised"
      THEN <<>>
      ELSE [s \in Range(store_names) |-> tResult[s]]

\* the map built from the gathered results; a task of _scrape_store_safe
\* never yields an exception
GatherResults == [s \in Range(store_names) |-> tResult[s]]

gather ==
    /\ bpc = "gather"
    /\ GatherReady
    /\ bpc' = "save"
    /\ all_results' = GatherResults
    /\ bSaved' = 0
    /\ UNCHANGED <<stores, searchVars, ledgerVars, fnVars,
                   runs, dbVars, now, store_names, tpc, tResult, bObjStatus,
                   bObjLast, bRet, adapterOut, adapterItems, invoked,
                   singleVars, apiVars, stopHit>>

\* all_results.items(): the keys in insertion order
ResultKeys == SeqOfSet(DOMAIN all_results)

\* one iteration of _save_all_results: _save_store_results for the next
\* entry of all_results; its commit also writes the dirty Store attributes
\* of the batch session
save_all_results_store(rejected) ==
    /\ bpc = "save"
    /\ bSaved < Len(ResultKeys)
    /\ LET s == ResultKeys[bSaved + 1]
           out == SaveOutcome(dbProducts, dbPrices, s, all_results[s],
                              rejected, autoflush)
       IN /\ rejected \in RejectChoices(all_results[s])
          /\ dbProducts' = out.products
          /\ dbPrices' = out.prices
          /\ dbStatus' = IF out.committed THEN Flush(dbStatus, bObjStatus)
                         ELSE dbStatus
          /\ dbLast' = IF out.committed THEN Flush(dbLast, bObjLast)
                       ELSE dbLast
    /\ bObjStatus' = NoDirty
    /\ bObjLast' = NoDirty
    /\ bSaved' = bSaved + 1
    /\ UNCHANGED <<stores, searchVars, ledgerVars, fnVars,
                   runs, now, bpc, store_names, tpc, tResult, all_results,
                   bRet, adapterOut, adapterItems, invoked, singleVars,
                   apiVars, stopHit>>

save_all_results_step ==
    \E rejected \in 0..MaxBatch : save_all_results_store(rejected)

\* return all_results
scrape_all_stores_return ==
    /\ bpc = "save"
    /\ bSaved = Len(ResultKeys)
    /\ bpc' = "returned"
    /\ bRet' = all_results
    /\ UNCHANGED <<stores, searchVars, ledgerVars, fnVars,
                   runs, dbVars, now, store_names, tpc, tResult, bObjStatus,
                   bObjLast, all_results, bSaved, adapterOut, adapterItems,
                   invoked, singleVars, apiVars, stopHit>>

\* sum(len(products) for products in results.values())
RECURSIVE SumLen(_, _)
SumLen(results, keys) ==
    IF keys = <<>> THEN 0
    ELSE Len(results[Head(keys)]) + SumLen(results, Tail(keys))

\* variant: the summary lists only the stores that yielded items
scrape_all_stores_task_nonempty(results) ==
    LET found == { s \in DOMAIN results : results[s] # <<>> }
    IN [stores_scraped |-> Cardinality(found),
        total_products |-> SumLen(results, SeqOfSet(found)),
        results |-> [s \in found |-> Len(results[s])]]

\* what scrape_all_stores_task returns for the map of scrape_all_stores
scrape_all_stores_task(results) ==
    [stores_scraped |-> Cardinality(DOMAIN results),
     total_products |-> SumLen(results, SeqOfSet(DOMAIN results)),
     results |-> [s \in DOMAIN results |-> Len(results[s])]]

BatchNext ==
    \/ scrape_all_stores_begin
    \/ \E s \in Stores : scrape_store_safe_begin(s)
    \/ \E s \in Stores : \E items \in ItemLists : scrape_store_safe_ok(s, items)
    \/ \E s \in Stores : scrape_store_safe_except(s)
    \/ \E s \in Stores : scrape_hangs(s)
    \/ gather
    \/ save_all_results_step
    \/ scrape_all_stores_return


\* ----------------------------------------------- scrape_single_store
\* the value of the three early returns: return []
ReturnEarly == <<>>

\* the value of the normal return: return products
ReturnProducts(products) == products

\* scrape_single_store up to the await of scraper.scrape(): the three early
\* returns, then status scraping committed on the session that owns the
\* store, then _scrape_store_safe up to the adapter call
scrape_single_store_call(store_id) ==
    /\ spc \in {"idle", "returned"}
    /\ sStore' = store_id
    /\ sProducts' = <<>>
    /\ sObjLast' = Clean
    /\ stopHit' = { h \in stopHit : h[1] # "single" }
    /\ IF store_id \notin Stores
         THEN /\ sPath' = "notfound"
              /\ spc' = "returned"
              /\ sRet' = ReturnEarly
              /\ sInvoked' = 0
              /\ sObjStatus' = Clean
              /\ UNCHANGED dbStatus
         ELSE IF ~stores[store_id].is_active
         THEN /\ sPath' = "inactive"
              /\ spc' = "returned"
              /\ sRet' = ReturnEarly
              /\ sInvoked' = 0
              /\ sObjStatus' = Clean
              /\ UNCHANGED dbStatus
         ELSE IF ~Resolvable(store_id)
         THEN /\ sPath' = "noscraper"
              /\ spc' = "returned"
              /\ sRet' = ReturnEarly
              /\ sInvoked' = 0
              /\ sObjStatus' = Clean
              /\ UNCHANGED dbStatus
         ELSE /\ sPath' = "running"
              /\ spc' = "inflight"
              /\ sInvoked' = 1
              /\ sRet' = <<>>
              /\ dbStatus' = [dbStatus EXCEPT ![store_id] = "scraping"]
              /\ sObjStatus' = <<"scraping">>
    /\ UNCHANGED <<stores, searchVars, ledgerVars, fnVars,
                   dbLast, dbProducts, dbPrices, now, batchVars,
                   stopResp>>

\* scrape_single_store called by a caller of its own
scrape_single_store_begin(store_id) ==
    /\ runs < MaxRuns
    /\ runs' = runs + 1
    /\ UNCHANGED <<bgTasks, taskRuns>>
    /\ scrape_single_store_call(store_id)

\* the worker starts a queued scrape_store_task(store_id)
run_scrape_store_task(store_id) ==
    /\ store_id \in bgTasks
    /\ store_id # 0
    /\ bgTasks' = bgTasks \ {store_id}
    /\ taskRuns < MaxTasks
    /\ taskRuns' = taskRuns + 1
    /\ UNCHANGED runs
    /\ scrape_single_store_call(store_id)

\* _scrape_store_safe, adapter returned
scrape_single_store_ok(items) ==
    /\ spc = "inflight"
    /\ spc' = "save"
    /\ sProducts' = items
    /\ sObjStatus' = <<"idle">>
    /\ sObjLast' = <<now>>
    /\ sPath' = "ok"
    /\ UNCHANGED <<stores, searchVars, ledgerVars, fnVars,
                   runs, dbVars, now, batchVars, sStore, sRet, sInvoked,
                   apiVars, stopHit>>

\* _scrape_store_safe, adapter raised: the exception is caught there and
\* [] is returned to scrape_single_store
scrape_single_store_except ==
    /\ spc = "inflight"
    /\ spc' = "save"
    /\ sProducts' = <<>>
    /\ sObjStatus' = <<"offline">>
    /\ sPath' = "raised"
    /\ UNCHANGED <<stores, searchVars, ledgerVars, fnVars,
                   runs, dbVars, now, batchVars, sStore, sObjLast, sRet,
                   sInvoked, apiVars, stopHit>>

\* saved_count = await self._save_store_results(products, store, db)
scrape_single_store_saved(rejected) ==
    /\ spc = "save"
    /\ spc' = "final"
    /\ rejected \in RejectChoices(sProducts)
    /\ LET out == SaveOutcome(dbProducts, dbPrices, sStore, sProducts,
                              rejected, autoflush)
       IN /\ dbProducts' = out.products
          /\ dbPrices' = out.prices
          /\ dbStatus' = IF sObjStatus = Clean \/ ~out.committed THEN dbStatus
                         ELSE [dbStatus EXCEPT ![sStore] = sObjStatus[1]]
          /\ dbLast' = IF sObjLast = Clean \/ ~out.committed THEN dbLast
                       ELSE [dbLast EXCEPT ![sStore] = sObjLast[1]]
    /\ sObjStatus' = Clean
    /\ sObjLast' = Clean
    /\ UNCHANGED <<stores, searchVars, ledgerVars, fnVars,
                   runs, now, batchVars, sStore, sProducts, sRet, sPath,
                   sInvoked, apiVars, stopHit>>

scrape_single_store_save ==
    \E rejected \in 0..MaxBatch : scrape_single_store_saved(rejected)

\* store.status = "idle"; store.last_scraped = utcnow(); commit; return
scrape_single_store_return ==
    /\ spc = "final"
    /\ spc' = "returned"
    /\ dbStatus' = [dbStatus EXCEPT ![sStore] = "idle"]
    /\ dbLast' = [dbLast EXCEPT ![sStore] = now]
    /\ sRet' = ReturnProducts(sProducts)
    /\ UNCHANGED <<stores, searchVars, ledgerVars, fnVars,
                   runs, dbProducts, dbPrices, now, batchVars, sStore,
                   sObjStatus, sObjLast, sProducts, sPath, sInvoked, apiVars,
                   stopHit>>

SingleNext ==
    \/ \E store_id \in StoreIds : scrape_single_store_begin(store_id)
    \/ \E items \in ItemLists : scrape_single_store_ok(items)
    \/ scrape_single_store_except
    \/ scrape_single_store_save
    \/ scrape_single_store_return

\* ------------------------------------- search_product_across_stores
\* variant: the search creates a task for every active store
SearchAttempted_unchecked == ActiveStores

\* the stores for which the search creates a task: the active stores whose
\* scraper_module is a key of self.scrapers
SearchAttempted == { s \in ActiveStores : Resolvable(s) }

\* search_product_across_stores up to the await of gather: query the active
\* stores on a Session of its own and create one task per store whose
\* scraper_module resolves
search_product_across_stores_begin(product_name) ==
    /\ qpc \in {"idle", "returned"}
    /\ qpc' = "gather"
    /\ qName' = product_name
    /\ qTask' = [s \in Stores |->
                   IF s \in SearchAttempted THEN "created" ELSE "none"]
    /\ qResult' = [s \in Stores |-> <<>>]
    /\ qOut' = [s \in Stores |-> "none"]
    /\ qItems' = [s \in Stores |-> <<>>]
    /\ qRet' = <<>>
    /\ UNCHANGED <<stores, ledgerVars, fnVars, runs, dbVars, now, batchVars,
                   singleVars, apiVars, stopHit>>

\* _search_product_in_store: scraper.search_product returns results
search_product_in_store_ok(s, items) ==
    /\ qpc = "gather"
    /\ qTask[s] = "created"
    /\ qTask' = [qTask EXCEPT ![s] = "done"]
    /\ qResult' = [qResult EXCEPT ![s] = items]
    /\ qOut' = [qOut EXCEPT ![s] = "ok"]
    /\ qItems' = [qItems EXCEPT ![s] = items]
    /\ UNCHANGED <<stores, ledgerVars, fnVars, runs, dbVars, now, batchVars,
                   singleVars, apiVars, stopHit, qpc, qName, qRet>>

\* _search_product_in_store: the browser or the search raises; the except
\* branch returns []
search_product_in_store_except(s) ==
    /\ qpc = "gather"
    /\ qTask[s] = "created"
    /\ qTask' = [qTask EXCEPT ![s] = "done"]
    /\ qResult' = [qResult EXCEPT ![s] = <<>>]
    /\ qOut' = [qOut EXCEPT ![s] = "raised"]
    /\ UNCHANGED <<stores, ledgerVars, fnVars, runs, dbVars, now, batchVars,
                   singleVars, apiVars, stopHit, qpc, qName, qItems, qRet>>

\* gather completes and the map of the results, keyed by store, is returned
search_product_across_stores_return ==
    /\ qpc = "gather"
    /\ \A s \in Stores : qTask[s] \in {"none", "done"}
    /\ qpc' = "returned"
    /\ qRet' = [s \in { x \in Stores : qTask[x] = "done" } |-> qResult[s]]
    /\ UNCHANGED <<stores, ledgerVars, fnVars, runs, dbVars, now, batchVars,
                   singleVars, apiVars, stopHit, qName, qTask, qResult, qOut,
                   qItems>>

SearchNext ==
    \/ \E product_name \in SearchNames :
          search_product_across_stores_begin(product_name)
    \/ \E s \in Stores : \E items \in ItemLists :
          search_product_in_store_ok(s, items)
    \/ \E s \in Stores : search_product_in_store_except(s)
    \/ search_product_across_stores_return

\* ------------------------------------------------------- api/scraper.py
\* POST /trigger; store_id 0 stands for an absent store_id.  The 404 and
\* 400 branches raise HTTPException before anything is written.
trigger_scraping(store_id) ==
    /\ IF store_id # 0
         THEN IF store_id \notin Stores \/ ~stores[store_id].is_active
                THEN UNCHANGED <<dbStatus, bgTasks>>
                ELSE /\ dbStatus' = [dbStatus EXCEPT ![store_id] = "scraping"]
                     /\ bgTasks' = bgTasks \cup {store_id}
         ELSE IF ActiveStores = {}
                THEN UNCHANGED <<dbStatus, bgTasks>>
                ELSE /\ dbStatus' = [s \in Stores |->
                         IF s \in ActiveStores THEN "scraping" ELSE dbStatus[s]]
                     /\ bgTasks' = bgTasks \cup {0}
    /\ UNCHANGED <<stores, searchVars, ledgerVars, fnVars,
                   runs, dbLast, dbProducts, dbPrices, now, batchVars,
                   singleVars, stopResp, taskRuns, stopHit>>

\* POST /refresh of api/prices.py: every active store is set to scraping and
\* the background task trigger_scraping of scraping_tasks.py queues one
\* scrape_store_task for each active store
refresh_prices ==
    /\ dbStatus' = [s \in Stores |->
                      IF s \in ActiveStores THEN "scraping" ELSE dbStatus[s]]
    /\ bgTasks' = bgTasks \cup ActiveStores
    /\ UNCHANGED <<stores, searchVars, ledgerVars, fnVars,
                   runs, dbLast, dbProducts, dbPrices, now, batchVars,
                   singleVars, stopResp, taskRuns, stopHit>>

\* GET /status: what a query of another session reads
get_scraping_status ==
    [s \in Stores |-> [status |-> dbStatus[s], last_scraped |-> dbLast[s],
                       is_active |-> stores[s].is_active]]

\* the tasks whose adapter call is in flight
InFlight ==
    { <<"batch", s>> : s \in { x \in Stores : tpc[x] \in {"inflight", "hung"} } }
        \cup (IF spc = "inflight" THEN { <<"single", sStore>> } ELSE {})

\* variant: stop resets every store, whatever its status
stop_scraping_all ==
    /\ dbStatus' = [s \in Stores |-> "idle"]
    /\ stopResp' = Cardinality({ s \in Stores : dbStatus[s] = "scraping" })
    /\ stopHit' = stopHit \cup InFlight
    /\ UNCHANGED <<stores, searchVars, ledgerVars, fnVars,
                   runs, dbLast, dbProducts, dbPrices, now, batchVars,
                   singleVars, bgTasks, taskRuns>>

\* variant: stop cancels the tasks whose adapter call is in flight
stop_scraping_cancel ==
    /\ dbStatus' = [s \in Stores |->
                      IF dbStatus[s] = "scraping" THEN "idle" ELSE dbStatus[s]]
    /\ stopResp' = Cardinality({ s \in Stores : dbStatus[s] = "scraping" })
    /\ stopHit' = stopHit \cup InFlight
    /\ tpc' = [s \in Stores |-> IF tpc[s] = "inflight" THEN "cancelled" ELSE tpc[s]]
    /\ UNCHANGED <<stores, searchVars, ledgerVars, fnVars,
                   runs, dbLast, dbProducts, dbPrices, now, bpc,
                   store_names, tResult, bObjStatus, bObjLast, all_results,
                   bSaved, bRet, adapterOut, adapterItems, invoked, singleVars,
                   bgTasks, taskRuns>>

\* POST /stop
stop_scraping ==
    /\ dbStatus' = [s \in Stores |->
                      IF dbStatus[s] = "scraping" THEN "idle" ELSE dbStatus[s]]
    /\ stopResp' = Cardinality({ s \in Stores : dbStatus[s] = "scraping" })
    /\ stopHit' = stopHit \cup InFlight
    /\ UNCHANGED <<stores, searchVars, ledgerVars, fnVars,
                   runs, dbLast, dbProducts, dbPrices, now, batchVars,
                   singleVars, bgTasks, taskRuns>>

ApiNext ==
    \/ \E store_id \in StoreIds \cup {0} : trigger_scraping(store_id)
    \/ stop_scraping

\* ------------------------------------------- DataProcessor (reconciler)
\* one iteration of the loop of process_scraped_data on the Session state
\* ops: skip an item without name or with price <= 0, skip an item no product
\* matches, update the Price row the query returns or add a new one, and
\* add a PriceHistory entry.  The query sees the committed rows, and the
\* Session's own pending rows when it flushes before a query.
ProcessItem(ops, products, prices, s, item, flush) ==
    IF item.name = <<>> \/ item.price <= 0 THEN ops
    ELSE LET i == find_matching_product(products, item.name)
         IN IF i = NoProduct THEN ops
            ELSE LET row == PriceRow(products[i].name, s, item)
                     pending == { k \in 1..Len(ops.ins) :
                                    SamePair(ops.ins[k], row) }
                 IN IF \E r \in prices : SamePair(r, row)
                      THEN [ops EXCEPT
                              !.upd = { u \in ops.upd : ~SamePair(u, row) }
                                         \cup {row},
                              !.hist = Append(ops.hist, row)]
                    ELSE IF flush /\ pending # {}
                      THEN [ops EXCEPT
                              !.ins = [k \in 1..Len(ops.ins) |->
                                         IF k \in pending THEN row
                                         ELSE ops.ins[k]],
                              !.hist = Append(ops.hist, row)]
                    ELSE [ops EXCEPT
                              !.ins = Append(ops.ins, row),
                              !.hist = Append(ops.hist, row)]

RECURSIVE ProcessItems(_, _, _, _, _, _)
ProcessItems(ops, products, prices, s, items, flush) ==
    IF items = <<>> THEN ops
    ELSE ProcessItems(ProcessItem(ops, products, prices, s, Head(items), flush),
                      products, prices, s, Tail(items), flush)

\* the INSERTs of a commit break the uniqueness of (product_id, store_id)
UniqueViolation_absent(prices, ins) == FALSE

UniqueViolation(prices, ins) ==
    \/ \E k \in 1..Len(ins) : \E r \in prices : SamePair(r, ins[k])
    \/ \E k, m \in 1..Len(ins) : k # m /\ SamePair(ins[k], ins[m])

\* PriceHistory rows get recorded_at when they are inserted
Stamp(hist, t) ==
    [k \in 1..Len(hist) |->
        [product |-> hist[k].product, store |-> hist[k].store,
         price |-> hist[k].price, is_available |-> hist[k].is_available,
         recorded_at |-> t]]

\* db.add(history_entry) for each entry, committed: the PriceHistory table
\* after the INSERTs
AddHistory_overwrite(history, entries) == entries

AddHistory(history, entries) == history \o entries

\* the UPDATEs and INSERTs of a commit applied to the Price table
ApplyOps(prices, ops) ==
    { r \in prices : \A u \in ops.upd : ~SamePair(r, u) }
        \cup ops.upd \cup Range(ops.ins)

\* process_scraped_data up to the commit: return at once on an empty list,
\* otherwise run the loop
process_scraped_data_loop(r, store_id, scraped_products) ==
    /\ lpc[r] = "idle"
    /\ lruns[r] < MaxLedgerRuns
    /\ lruns' = [lruns EXCEPT ![r] = @ + 1]
    /\ IF scraped_products = <<>>
         THEN UNCHANGED <<lpc, lOps>>
         ELSE /\ lpc' = [lpc EXCEPT ![r] = "commit"]
              /\ lOps' = [lOps EXCEPT ![r] =
                             ProcessItems(NoOps, dbProducts, dbPrices, store_id,
                                          scraped_products, autoflush)]
    /\ UNCHANGED <<stores, searchVars, fnVars, runs, dbVars, dbHistory, autoflush, faulty, now,
                   batchVars, singleVars, apiVars, stopHit>>

\* db.commit(), and db.rollback() when the commit raises: an UPDATE of a
\* row that is gone or an INSERT that breaks uniqueness
process_scraped_data_commit(r) ==
    /\ lpc[r] = "commit"
    /\ IF lOps[r].stale \/ UniqueViolation(dbPrices, lOps[r].ins)
         THEN UNCHANGED <<dbPrices, dbHistory>>
         ELSE /\ dbPrices' = ApplyOps(dbPrices, lOps[r])
              /\ dbHistory' = AddHistory(dbHistory, Stamp(lOps[r].hist, now))
    /\ lpc' = [lpc EXCEPT ![r] = "idle"]
    /\ lOps' = [lOps EXCEPT ![r] = NoOps]
    /\ UNCHANGED <<stores, searchVars, fnVars, runs, dbStatus, dbLast, dbProducts,
                   autoflush, faulty, lruns, now, batchVars, singleVars, apiVars,
                   stopHit>>

\* the Price rows _save_store_results adds, one per ProductData
SaveInserts(s, items) ==
    [k \in 1..Len(items) |-> PriceRow(items[k].name, s, items[k])]

\* _save_store_results(db, store, products) on its own Session.  Without
\* autoflush the rows added for earlier items are still pending when a later
\* item deletes the rows of its pair, so all of them are inserted by the
\* commit; when the commit raises, the except branch rolls back.  A Price
\* row replaced here is gone for a reconciler Session that loaded it.
save_store_results(s, items) ==
    /\ runs < MaxRuns
    /\ runs' = runs + 1
    /\ IF ~autoflush /\ UniqueViolation({}, SaveInserts(s, items))
         THEN UNCHANGED <<dbProducts, dbPrices, lOps>>
         ELSE /\ \E rejected \in RejectChoices(items) :
                    LET out == SaveOutcome(dbProducts, dbPrices, s, items,
                                           rejected, autoflush)
                    IN /\ dbProducts' = out.products
                       /\ dbPrices' = out.prices
              /\ lOps' = [r \in Sessions |->
                    IF \E u \in lOps[r].upd : \E k \in 1..Len(items) :
                          u.product = items[k].name /\ u.store = s
                      THEN [lOps[r] EXCEPT !.stale = TRUE]
                      ELSE lOps[r]]
    /\ UNCHANGED <<stores, searchVars, fnVars, dbStatus, dbLast, dbHistory, autoflush,
                   faulty, lpc, lruns, now, batchVars, singleVars, apiVars,
                   stopHit>>

LedgerNext ==
    \/ \E r \in Sessions, store_id \in Stores, scraped_products \in LedgerBatches :
          process_scraped_data_loop(r, store_id, scraped_products)
    \/ \E r \in Sessions : process_scraped_data_commit(r)
    \/ \E s \in Stores, items \in LedgerBatches : save_store_results(s, items)

\* ----------------------------------------------- calls of the functions
\* DataProcessor._find_matching_product(db, scraped_name)
call_find_matching_product ==
    /\ fnRet = <<>>
    /\ fnRet' = <<find_matching_product(fnArgs.products, fnArgs.scraped_name)>>
    /\ UNCHANGED <<stores, searchVars, dbVars, now, runs, batchVars, singleVars, apiVars,
                   stopHit, ledgerVars, fnArgs>>

\* CategoryClassifier.classify(product_name)
call_classify ==
    /\ fnRet = <<>>
    /\ fnRet' = <<classify(fnArgs.category_keywords, fnArgs.product_name)>>
    /\ UNCHANGED <<stores, searchVars, dbVars, now, runs, batchVars, singleVars, apiVars,
                   stopHit, ledgerVars, fnArgs>>

\* PriceService._format_price_with_change(db, price)
call_format_price_with_change ==
    /\ fnRet = <<>>
    /\ \E previous \in PreviousChoices(dbHistory, fnArgs.price, now) :
          fnRet' = <<format_price_with_change(fnArgs.price, previous)>>
    /\ UNCHANGED <<stores, searchVars, dbVars, now, runs, batchVars, singleVars, apiVars,
                   stopHit, ledgerVars, fnArgs>>

\* the loop body of get_prices_test_no_auth for one Price row
call_get_prices_test_no_auth ==
    /\ fnRet = <<>>
    /\ \E previous \in PreviousChoices(dbHistory, fnArgs.price, now) :
          fnRet' = <<test_no_auth_change(fnArgs.price, previous)>>
    /\ UNCHANGED <<stores, searchVars, dbVars, now, runs, batchVars, singleVars, apiVars,
                   stopHit, ledgerVars, fnArgs>>

\* ------------------------------------------------------- price trends
\* the rows a query returns under order_by(recorded_at): sorted on
\* recorded_at, rows with the same recorded_at in any order
OrderBy(rows) ==
    LET n == Len(rows)
        perms == { p \in [1..n -> 1..n] :
                     \A i \in 1..n : \A j \in 1..n : i # j => p[i] # p[j] }
    IN { [i \in 1..n |-> rows[p[i]]] : p \in
           { q \in perms : \A i \in 1..n : \A j \in 1..n :
                 i < j => rows[q[i]].recorded_at <= rows[q[j]].recorded_at } }

\* record.recorded_at.date(): the calendar day of a time
DateOf(t) == t \div Day

\* utcnow() - timedelta(days=days)
Since(t, days) == t - days * Day

\* variant: d.setdefault(k, v), a key that is present keeps its value
DictSet_setdefault(dict, k, v) ==
    IF \E i \in 1..Len(dict) : dict[i].key = k
      THEN dict
      ELSE Append(dict, [key |-> k, value |-> v])

\* d[k] = v on a dict kept as the sequence of its items in insertion order
DictSet(dict, k, v) ==
    IF \E i \in 1..Len(dict) : dict[i].key = k
      THEN [i \in 1..Len(dict) |->
              IF dict[i].key = k THEN [key |-> k, value |-> v] ELSE dict[i]]
      ELSE Append(dict, [key |-> k, value |-> v])

\* d[k] of a key that is present
DictGet(dict, k) ==
    LET i == CHOOSE j \in 1..Len(dict) : dict[j].key = k IN dict[i].value

\* the grouping loop of get_price_trends:
\* trends[date_key][store_key] = {price, is_available}
RECURSIVE GroupTrends(_, _)
GroupTrends(trends, history) ==
    IF history = <<>> THEN trends
    ELSE LET record == Head(history)
             date_key == DateOf(record.recorded_at)
             store_key == record.store
             day == IF \E i \in 1..Len(trends) : trends[i].key = date_key
                      THEN DictGet(trends, date_key) ELSE <<>>
             entry == [price |-> record.price,
                       is_available |-> record.is_available]
         IN GroupTrends(DictSet(trends, date_key,
                                DictSet(day, store_key, entry)),
                        Tail(history))

\* the query of GET /trends; store_id 0 stands for an absent store_id
TrendQuery(history, product_id, store_id, since) ==
    SelectSeq(history, LAMBDA r :
        /\ r.product = product_id
        /\ r.recorded_at >= since
        /\ (store_id # 0 => r.store = store_id))

\* GET /trends of api/prices.py, for one order of the query's rows
get_price_trends(history) == GroupTrends(<<>>, history)

\* PriceService.get_price_trends: the query has no store filter
ServiceTrendQuery(history, product_id, since) ==
    SelectSeq(history, LAMBDA r :
        r.product = product_id /\ r.recorded_at >= since)

\* ... and every row becomes {"date", "price"}
service_get_price_trends(history) ==
    [i \in 1..Len(history) |->
        [date |-> DateOf(history[i].recorded_at), price |-> history[i].price]]

\* GET /trends?product_id=&store_id=&days=
call_get_price_trends ==
    /\ fnRet = <<>>
    /\ \E history \in OrderBy(TrendQuery(dbHistory, fnArgs.product_id,
                                  fnArgs.store_id, Since(now, fnArgs.days))) :
          fnRet' = <<get_price_trends(history)>>
    /\ UNCHANGED <<stores, searchVars, dbVars, now, runs, batchVars, singleVars, apiVars,
                   stopHit, ledgerVars, fnArgs>>

\* PriceService.get_price_trends(db, product_id, days)
call_service_get_price_trends ==
    /\ fnRet = <<>>
    /\ \E history \in OrderBy(ServiceTrendQuery(dbHistory, fnArgs.product_id,
                                  Since(now, fnArgs.days))) :
          fnRet' = <<service_get_price_trends(history)>>
    /\ UNCHANGED <<stores, searchVars, dbVars, now, runs, batchVars, singleVars, apiVars,
                   stopHit, ledgerVars, fnArgs>>

\* ------------------------------------------------------ specifications
Next == BatchNext \/ SingleNext \/ ApiNext \/ Tick

Spec == Init /\ [][Next]_vars

\* one batch at a time, no other writer
NextBatch == BatchNext \/ Tick

SpecBatch == Init /\ [][NextBatch]_vars

\* the API and the worker that runs the background tasks it queues: one
\* store with a registered scraper and one whose scraper_module is unknown
InitTrigger ==
    /\ stores = [s \in Stores |->
                   [is_active |-> TRUE,
                    scraper_module |-> IF s = 1 THEN "gourmet_scraper"
                                       ELSE "legacy_scraper"]]
    /\ dbProducts = <<>>
    /\ autoflush = TRUE
    /\ faulty = FALSE
    /\ InitTables
    /\ InitCalls
    /\ fnArgs = <<>>
    /\ fnRet = <<>>

NextTrigger ==
    \/ ApiNext
    \/ refresh_prices
    \/ run_scrape_all_stores_task
    \/ \E store_id \in StoreIds : run_scrape_store_task(store_id)
    \/ \E s \in Stores : scrape_store_safe_begin(s)
    \/ \E s \in Stores : \E items \in ItemLists : scrape_store_safe_ok(s, items)
    \/ \E s \in Stores : scrape_store_safe_except(s)
    \/ \E s \in Stores : scrape_hangs(s)
    \/ gather
    \/ save_all_results_step
    \/ scrape_all_stores_return
    \/ \E items \in ItemLists : scrape_single_store_ok(items)
    \/ scrape_single_store_except
    \/ scrape_single_store_save
    \/ scrape_single_store_return

SpecTrigger == InitTrigger /\ [][NextTrigger]_vars

\* a search across the stores while a store is scraped
NextSearch == SearchNext \/ SingleNext \/ Tick

SpecSearch == Init /\ [][NextSearch]_vars

\* the manager on a database that may reject an INSERT
InitFault ==
    /\ stores \in [Stores -> StoreRows]
    /\ dbProducts = <<>>
    /\ autoflush = TRUE
    /\ faulty = TRUE
    /\ InitTables
    /\ InitCalls
    /\ fnArgs = <<>>
    /\ fnRet = <<>>

NextFault == BatchNext \/ SingleNext \/ Tick

SpecFault == InitFault /\ [][NextFault]_vars

\* the end-to-end scenario: the catalog is in place and the adapter of the
\* scraped store returns the two items
InitScenario ==
    /\ stores \in [Stores -> StoreRows]
    /\ dbProducts = ScenarioCatalog
    /\ autoflush = TRUE
    /\ faulty = FALSE
    /\ InitTables
    /\ InitCalls
    /\ fnArgs = <<>>
    /\ fnRet = <<>>

NextScenario ==
    \/ \E store_id \in StoreIds : scrape_single_store_begin(store_id)
    \/ scrape_single_store_ok(ScenarioItems)
    \/ scrape_single_store_except
    \/ scrape_single_store_save
    \/ scrape_single_store_return
    \/ Tick

SpecScenario == InitScenario /\ [][NextScenario]_vars

\* the event loop runs every task that is ready: the batch does not stop
\* while one of its steps is enabled
FairBatch == SpecBatch /\ WF_vars(NextBatch)

\* the persistence paths on one database: concurrent reconciler Sessions
\* and the save step of the manager
NextLedger == LedgerNext \/ Tick

SpecLedger == InitLedger /\ [][NextLedger]_vars

\* _find_matching_product called on any product table and scraped name
InitMatch ==
    /\ InitFn
    /\ InitTables
    /\ fnArgs \in [products : ProductTables, scraped_name : TextsUpTo(MaxName)]

SpecMatch == InitMatch /\ [][call_find_matching_product]_vars

\* classify called with any keyword table and product name
InitClassify ==
    /\ InitFn
    /\ InitTables
    /\ fnArgs \in [category_keywords : KeywordTables,
                    product_name : TextsUpTo(MaxName)]

SpecClassify == InitClassify /\ [][call_classify]_vars

\* the price change of a Price row asked for over any PriceHistory table,
\* whoever wrote its rows
InitChange ==
    /\ InitFn
    /\ fnArgs \in [price : CurrentRows]
    /\ dbPrices = {fnArgs.price}
    /\ dbHistory \in HistoryTables
    /\ now = ChangeNow

NextChange == call_format_price_with_change \/ call_get_prices_test_no_auth

SpecChange == InitChange /\ [][NextChange]_vars

\* a trend asked for over any PriceHistory table, for any product, with or
\* without a store, over any number of days
InitTrend ==
    /\ InitFn
    /\ fnArgs \in [product_id : {<<"a">>, <<"b">>}, store_id : 0..NStores,
                    days : 1..MaxDays]
    /\ dbPrices = {}
    /\ dbHistory \in TrendTables
    /\ now = ChangeNow

NextTrend == call_get_price_trends \/ call_service_get_price_trends

SpecTrend == InitTrend /\ [][NextTrend]_vars


\* ================================================================ claims
\* the attempted stores of the running batch whose adapter raised
Failed == { s \in Range(store_names) : adapterOut[s] = "raised" }

\* C1: when scrape_all_stores has returned and exactly one attempted store's
\* adapter raised, the returned map holds every other attempted store with
\* exactly the items its adapter returned, and the failed store's committed
\* status is offline.
C1_FailureIsolated ==
    (bpc = "returned" /\ Cardinality(Failed) = 1) =>
        /\ \A s \in Range(store_names) \ Failed :
              /\ s \in DOMAIN bRet
              /\ bRet[s] = adapterItems[s]
        /\ \A s \in Failed : dbStatus[s] = "offline"

\* a batch of two stores has returned, one adapter raised and the other
\* store's items are in the map
C1_Witness ==
    /\ bpc = "returned"
    /\ Cardinality(Failed) = 1
    /\ \E s \in Range(store_names) \ Failed :
          /\ s \in DOMAIN bRet
          /\ Len(bRet[s]) > 0
    /\ \A s \in Failed : dbStatus[s] = "offline"

\* C2: when scrape_all_stores has returned, every task it launched has
\* finished and the returned map has an entry for each of them.
C2_ReturnsAfterAllTasks ==
    bpc = "returned" =>
        /\ \A s \in Stores : tpc[s] \in {"none", "done"}
        /\ DOMAIN bRet = { s \in Stores : tpc[s] # "none" }

\* a batch that launched two tasks has returned
C2_Witness ==
    /\ bpc = "returned"
    /\ Cardinality({ s \in Stores : tpc[s] = "done" }) >= 2
    /\ \E s \in DOMAIN bRet : Len(bRet[s]) > 0

\* C4: an adapter is invoked for a store only if the store is active and its
\* scraper_module is a key of the registry, and a batch that has returned
\* invoked the adapter of every such store and returned an entry for exactly
\* these stores.
C4_OnlyResolvableAttempted ==
    /\ \A s \in Stores :
          (tpc[s] # "none" \/ invoked[s] > 0) =>
              (stores[s].is_active /\ stores[s].scraper_module \in scrapers)
    /\ bpc = "returned" =>
          /\ DOMAIN bRet =
                { s \in Stores : stores[s].is_active
                                   /\ stores[s].scraper_module \in scrapers }
          /\ \A s \in DOMAIN bRet : invoked[s] = 1

\* a batch over an active store without a registered scraper_module has
\* returned the items of another store
C4_Witness ==
    /\ bpc = "returned"
    /\ \E s \in Stores :
          /\ stores[s].is_active
          /\ stores[s].scraper_module \notin scrapers
          /\ s \notin DOMAIN bRet
          /\ invoked[s] = 0
    /\ \E s \in DOMAIN bRet : Len(bRet[s]) > 0


\* C3: if the adapter of one attempted store never returns and the sibling
\* tasks have completed, the batch still eventually returns, with an entry
\* for every store whose task completed.
C3_HungStoreDoesNotBlock ==
    (/\ Cardinality({ s \in Stores : tpc[s] = "hung" }) = 1
     /\ \A s \in Range(store_names) : tpc[s] \in {"hung", "done"})
        ~> (/\ bpc = "returned"
            /\ \A s \in Stores : tpc[s] = "done" => s \in DOMAIN bRet)

\* C5: while the adapter of an attempted store is in flight a status query
\* reads scraping for it, and once the adapter has returned successfully the
\* query reads idle and an updated last_scraped.
C5_StatusVisibleDuringScrape ==
    \A s \in Range(store_names) :
        /\ tpc[s] = "inflight" => get_scraping_status[s].status = "scraping"
        /\ (tpc[s] = "done" /\ adapterOut[s] = "ok") =>
              /\ get_scraping_status[s].status = "idle"
              /\ get_scraping_status[s].last_scraped # NoTime
              /\ get_scraping_status[s].last_scraped <= now

\* C6: when scrape_single_store returns after the adapter raised, the
\* store's committed status is offline.
C6_SingleFailureOffline ==
    [][(scrape_single_store_return /\ sPath = "raised")
          => dbStatus'[sStore] = "offline"]_vars

\* the transitions of section 4.4
AllowedTransitions ==
    { <<"idle", "scraping">>, <<"offline", "scraping">>,
      <<"scraping", "idle">>, <<"scraping", "offline">> }

\* C7: every change of a store's committed status is one of idle->scraping,
\* offline->scraping, scraping->idle, scraping->offline.
C7_OnlyAllowedTransitions ==
    [][\A s \in Stores :
          dbStatus'[s] # dbStatus[s]
              => <<dbStatus[s], dbStatus'[s]>> \in AllowedTransitions]_vars

RowsOf(s, items) ==
    { [product |-> items[i].name, store |-> s, price |-> items[i].price,
       is_available |-> items[i].is_available] : i \in 1..Len(items) }

C10_NotFoundDistinguishable ==
    [][\A id \in StoreIds :
          (/\ scrape_single_store_begin(id)
           /\ (id \notin Stores \/ ~stores[id].is_active))
              => /\ sInvoked' = 0
                 /\ UNCHANGED dbVars
                 /\ sRet' # ReturnProducts(<<>>)]_vars

Reconcile(db, s, batch, flush, t) ==
    LET ops == ProcessItems(NoOps, db.products, db.prices, s, batch, flush)
    IN IF batch = <<>> \/ UniqueViolation(db.prices, ops.ins) THEN db
       ELSE [db EXCEPT !.prices = ApplyOps(db.prices, ops),
                       !.history = AddHistory(db.history, Stamp(ops.hist, t))]

\* one whole call of _save_store_results with no other writer in between
SaveRun(db, s, items, flush) ==
    IF ~flush /\ UniqueViolation({}, SaveInserts(s, items)) THEN db
    ELSE [db EXCEPT !.products = SaveProducts(db.products, items),
                    !.prices = SavePrices(db.prices, s, items)]

\* the products the valid, matched items of a batch resolve to
ReconciledProducts(products, batch) ==
    { products[find_matching_product(products, batch[k].name)].name :
        k \in { j \in 1..Len(batch) :
                  /\ batch[j].name # <<>>
                  /\ batch[j].price > 0
                  /\ find_matching_product(products, batch[j].name)
                        # NoProduct } }

\* d1 and d2 are the database after the first and the second of two equal
\* invocations on d0 that reconcile the given products of store s
TwiceIsOnce(d0, d1, d2, s, reconciled) ==
    /\ \A p \in reconciled :
          Cardinality({ r \in d1.prices : r.product = p /\ r.store = s }) = 1
    /\ d2.prices = d1.prices
    /\ Len(d1.history) = Len(d0.history) + Cardinality(reconciled)
    /\ Len(d2.history) = Len(d1.history) + Cardinality(reconciled)

\* C12: in any state, running the reconciliation (or the save step) twice
\* with the same batch leaves one Price row per reconciled pair with the
\* values of the first run, and each run appends exactly one PriceHistory
\* row per reconciled pair.
C12_TwiceIsOnce ==
    \A s \in Stores : \A batch \in LedgerBatches :
        LET d0 == [products |-> dbProducts, prices |-> dbPrices,
                   history |-> dbHistory]
            r1 == Reconcile(d0, s, batch, autoflush, now)
            r2 == Reconcile(r1, s, batch, autoflush, now)
            m1 == SaveRun(d0, s, batch, autoflush)
            m2 == SaveRun(m1, s, batch, autoflush)
        IN /\ TwiceIsOnce(d0, r1, r2, s,
                          ReconciledProducts(dbProducts, batch))
           /\ TwiceIsOnce(d0, m1, m2, s,
                          { batch[k].name : k \in 1..Len(batch) })

\* ---------------------------------------------------------------------
\* positions of the PriceHistory rows of the pair of Price row r
HistoryOf(r) == { k \in 1..Len(dbHistory) : SamePair(dbHistory[k], r) }

\* C13: at every moment each Price row has at least one PriceHistory row
\* for its pair, the recorded_at values of a pair never decrease along the
\* insertion order, and the price and availability of the Price row are
\* those of the pair's last PriceHistory row.
C13_PriceMatchesHistory ==
    /\ \A r \in dbPrices :
          /\ HistoryOf(r) # {}
          /\ LET last == CHOOSE k \in HistoryOf(r) :
                            \A j \in HistoryOf(r) : j <= k
             IN /\ dbHistory[last].price = r.price
                /\ dbHistory[last].is_available = r.is_available
    /\ \A j \in 1..Len(dbHistory) : \A k \in 1..Len(dbHistory) :
          (j < k /\ SamePair(dbHistory[j], dbHistory[k]))
              => dbHistory[j].recorded_at <= dbHistory[k].recorded_at

\* ---------------------------------------------------------------------
\* C14: PriceHistory is append-only: every step leaves the rows that were
\* committed before it in place and unchanged, and only adds rows after
\* them.
C14_HistoryAppendOnly ==
    [][/\ Len(dbHistory') >= Len(dbHistory)
       /\ SubSeq(dbHistory', 1, Len(dbHistory)) = dbHistory]_vars

\* a PriceHistory row of a pair is still there after a later commit wrote a
\* newer row of the same pair and after the manager's save replaced Price
\* rows
C14_Witness ==
    /\ runs = 1
    /\ \E j \in 1..Len(dbHistory) : \E k \in 1..Len(dbHistory) :
          /\ j < k
          /\ SamePair(dbHistory[j], dbHistory[k])
          /\ dbHistory[j].recorded_at < dbHistory[k].recorded_at

\* ---------------------------------------------------------------------
\* an item that has a name and a positive price
Valid(item) == item.name # <<>> /\ item.price > 0

\* row carries the store and the values of a valid item of the batch
FromValidItem(row, s, batch) ==
    \E k \in 1..Len(batch) :
        /\ Valid(batch[k])
        /\ row.store = s
        /\ row.price = batch[k].price
        /\ row.is_available = batch[k].is_available

\* the Price and PriceHistory rows a reconciler Session has pending
PendingRows(ops) == ops.upd \cup Range(ops.ins) \cup Range(ops.hist)

\* the Price rows and the PriceHistory rows (without recorded_at) a step adds
NewPrices == dbPrices' \ dbPrices

NewHistory ==
    { [product |-> dbHistory'[k].product, store |-> dbHistory'[k].store,
       price |-> dbHistory'[k].price,
       is_available |-> dbHistory'[k].is_available] :
        k \in (Len(dbHistory) + 1)..Len(dbHistory') }

\* C15: no step persists a row for an item with an empty name or a price
\* <= 0: what the reconciler's loop leaves pending and what its commit
\* writes, and what the manager's save step writes, always carries the
\* values of a valid item of the batch.
C15_InvalidItemsDropped ==
    [][/\ \A r \in Sessions : \A s \in Stores : \A batch \in LedgerBatches :
             process_scraped_data_loop(r, s, batch) =>
                \A row \in PendingRows(lOps'[r]) :
                    FromValidItem(row, s, batch)
       /\ \A r \in Sessions :
             process_scraped_data_commit(r) =>
                NewPrices \cup NewHistory \subseteq PendingRows(lOps[r])
       /\ \A s \in Stores : \A items \in LedgerBatches :
             save_store_results(s, items) =>
                \A row \in NewPrices \cup NewHistory :
                    FromValidItem(row, s, items)
      ]_vars

\* ---------------------------------------------------------------------
\* the name of the product an item resolves to among products
ProductOf(products, item) ==
    products[find_matching_product(products, item.name)].name

\* the items of a batch that are valid and resolve to a product
Reconcilable(products, batch) ==
    { k \in 1..Len(batch) :
        /\ Valid(batch[k])
        /\ find_matching_product(products, batch[k].name) # NoProduct }

\* C16: an item that matches no product of the catalog leaves nothing
\* behind and stops nothing: every row a step leaves pending or writes
\* belongs to a product that was in the catalog and that an item of the
\* batch resolves to, no step adds a Product, and every valid, matched item
\* of the batch gets its PriceHistory entry whatever other items the batch
\* holds.
C16_UnmatchedItemsDropped ==
    [][/\ \A r \in Sessions : \A s \in Stores : \A batch \in LedgerBatches :
             process_scraped_data_loop(r, s, batch) =>
                /\ \A row \in PendingRows(lOps'[r]) :
                      \E k \in Reconcilable(dbProducts, batch) :
                          row = PriceRow(ProductOf(dbProducts, batch[k]), s,
                                         batch[k])
                /\ \A k \in Reconcilable(dbProducts, batch) :
                      PriceRow(ProductOf(dbProducts, batch[k]), s, batch[k])
                          \in Range(lOps'[r].hist)
       /\ \A r \in Sessions :
             process_scraped_data_commit(r) =>
                /\ dbProducts' = dbProducts
                /\ NewPrices \cup NewHistory \subseteq PendingRows(lOps[r])
       /\ \A s \in Stores : \A items \in LedgerBatches :
             save_store_results(s, items) =>
                /\ dbProducts' = dbProducts
                /\ \A row \in NewPrices \cup NewHistory :
                      \E i \in 1..Len(dbProducts) :
                          row.product = dbProducts[i].name
      ]_vars

\* ---------------------------------------------------------------------
\* two characters are the same letter in either case, or the same character
SameIgnoringCase(c, d) ==
    c = d \/ {c, d} = {"a", "A"} \/ {c, d} = {"b", "B"}

\* keyword occurs in name when case is ignored
SubstringIgnoringCase(keyword, name) ==
    \E i \in 0..(Len(name) - Len(keyword)) :
        \A j \in 1..Len(keyword) : SameIgnoringCase(keyword[j], name[i + j])

\* the keywords of a product: the pieces of its comma-separated list
KeywordsOf(product) ==
    { Strip(k) : k \in Range(Split(product.keywords, Comma)) }

HasKeywordIn(product, name) ==
    \E keyword \in KeywordsOf(product) : SubstringIgnoringCase(keyword, name)

MatchesAtWordBoundaries(keyword, name) ==
    \E i \in 0..(Len(name) - Len(keyword)) :
        /\ \A j \in 1..Len(keyword) : SameIgnoringCase(keyword[j], name[i + j])
        /\ i = 0 \/ name[i] \in {Blank, Comma}
        /\ i + Len(keyword) = Len(name)
              \/ name[i + Len(keyword) + 1] \in {Blank, Comma}

\* the table {"A": ["tomato"], "B": ["cherry tomato"]} and the name
\* "Cherry Tomato", with a for tomato and b for cherry
TomatoTable == [A |-> << <<"a">> >>, B |-> << <<"b", Blank, "a">> >>]

CherryTomatoName == <<"B", Blank, "A">>

OlderThanADay ==
    { k \in HistoryOf(fnArgs.price) :
        now - dbHistory[k].recorded_at > Day }

NewestOlderThanADay ==
    { k \in OlderThanADay : \A j \in OlderThanADay :
        dbHistory[j].recorded_at <= dbHistory[k].recorded_at }

\* r is (current - previous) / previous * 100 rounded to two decimals: a
\* whole number of hundredths, and none is nearer
IsRoundedChange(r, current, previous) ==
    /\ (100 * r.num) % r.den = 0
    /\ 2 * Abs(((100 * r.num) \div r.den) * previous
                  - 10000 * (current - previous)) <= previous

\* C19: the price change returned for a pair whose newest PriceHistory row
\* older than 24 hours has a positive price is (current - previous) /
\* previous * 100 for that row, rounded to two decimals; rows of the last
\* 24 hours and rows of other pairs play no part.
C19_ChangeRounded ==
    (fnRet # <<>> /\ \E k \in NewestOlderThanADay : dbHistory[k].price > 0)
        => \E k \in NewestOlderThanADay :
              \/ /\ dbHistory[k].price > 0
                 /\ IsRoundedChange(fnRet[1], fnArgs.price.price,
                                    dbHistory[k].price)
              \/ dbHistory[k].price <= 0 /\ fnRet[1] = Zero

\* C20: the price change returned is 0 when the pair has no PriceHistory
\* row older than 24 hours, and when the newest such row has a price <= 0,
\* whatever the current price and the newer rows are.
C20_ZeroWithoutPrevious ==
    (fnRet # <<>> /\ \A k \in NewestOlderThanADay : dbHistory[k].price <= 0)
        => fnRet[1] = Zero

\* a change of 0 was returned for a pair whose only row is newer than 24
\* hours and has a positive price other than the current one
C20_Witness ==
    /\ fnRet = <<Zero>>
    /\ OlderThanADay = {}
    /\ \E k \in HistoryOf(fnArgs.price) :
          /\ dbHistory[k].price > 0
          /\ dbHistory[k].price # fnArgs.price.price
          /\ now - dbHistory[k].recorded_at = Day

\* ---------------------------------------------------------------- C21
\* the history records of the asked product inside the window, of the
\* asked store when one is given
TrendWindow ==
    SelectSeq(dbHistory, LAMBDA r :
        /\ r.product = fnArgs.product_id
        /\ r.recorded_at >= now - fnArgs.days * Day
        /\ (fnArgs.store_id # 0 => r.store = fnArgs.store_id))

\* how often a value occurs in a sequence
Count(q, v) == Cardinality({ i \in 1..Len(q) : q[i] = v })

\* two sequences hold the same values the same number of times
SameRecords(p, q) ==
    \A v \in Range(p) \cup Range(q) : Count(p, v) = Count(q, v)

\* the records a grouped trend holds, in the order of its keys
RECURSIVE TrendEntries(_)
TrendEntries(trends) ==
    IF trends = <<>> THEN <<>>
    ELSE LET day == Head(trends)
         IN [i \in 1..Len(day.value) |->
               [date |-> day.key, store |-> day.value[i].key,
                price |-> day.value[i].value.price,
                is_available |-> day.value[i].value.is_available]]
            \o TrendEntries(Tail(trends))

\* what the grouped trend shows of the records of the window
WindowEntries ==
    [i \in 1..Len(TrendWindow) |->
        [date |-> DateOf(TrendWindow[i].recorded_at),
         store |-> TrendWindow[i].store,
         price |-> TrendWindow[i].price,
         is_available |-> TrendWindow[i].is_available]]

\* what the list of the service shows of the records of the window
WindowPoints ==
    [i \in 1..Len(TrendWindow) |->
        [date |-> DateOf(TrendWindow[i].recorded_at),
         price |-> TrendWindow[i].price]]

\* dates never decrease along a sequence of returned records
Ascending(q) ==
    \A i \in 1..Len(q) : \A j \in 1..Len(q) : i < j => q[i].date <= q[j].date

\* C21: a price trend returns exactly the history records of the asked
\* product whose capture time is inside the window, of the asked store
\* when one is given, in ascending order of capture time: every such record
\* is returned once and nothing else is (PriceService.get_price_trends takes
\* no store, so it is held to the statement when none is asked for)
C21_TrendExact ==
    [][ /\ call_get_price_trends =>
             /\ SameRecords(TrendEntries(fnRet[1]), WindowEntries)'
             /\ Ascending(TrendEntries(fnRet[1]))'
        /\ (call_service_get_price_trends /\ fnArgs.store_id = 0) =>
             /\ SameRecords(fnRet[1], WindowPoints)'
             /\ Ascending(fnRet[1])' ]_vars

\* the part of C21 that holds: the list of PriceService.get_price_trends
C21_ServiceTrendExact ==
    [][ (call_service_get_price_trends /\ fnArgs.store_id = 0) =>
             /\ SameRecords(fnRet[1], WindowPoints)'
             /\ Ascending(fnRet[1])' ]_vars

\* the part of C21 that holds for GET /trends: every returned record is a
\* record of the window, and every day and store of the window has one
C21_ApiTrendWithinWindow ==
    [][ call_get_price_trends =>
          /\ (Range(TrendEntries(fnRet[1])) \subseteq Range(WindowEntries))'
          /\ ({ [date |-> e.date, store |-> e.store] :
                    e \in Range(TrendEntries(fnRet[1])) }
                = { [date |-> e.date, store |-> e.store] :
                    e \in Range(WindowEntries) })'
          /\ Ascending(TrendEntries(fnRet[1]))' ]_vars

\* ---------------------------------------------------------------- C22
\* the stores of the batch whose results _save_all_results has written
LedgerWritten(n) == { ResultKeys[i] : i \in 1..n }

\* the step writes the final status idle of store s to the database
FinalStatusWritten(s) ==
    /\ bpc = "save"
    /\ bObjStatus[s] = <<"idle">>
    /\ bObjStatus'[s] = Clean

\* C22: the pipeline of a store of a batch runs in the order status
\* scraping, adapter scrape, reconciliation, ledger write, final status: the
\* status of a store that yielded items is written back as idle no earlier
\* than the transaction that writes its price rows
C22_IdleAfterLedgerWrite ==
    [][ \A s \in Stores :
          (FinalStatusWritten(s) /\ all_results[s] # <<>>)
              => s \in LedgerWritten(bSaved') ]_vars

\* ---------------------------------------------------------------- C23
\* the store whose results the next iteration of _save_all_results saves
SavingStore == ResultKeys[bSaved + 1]

\* what _save_store_results returns to _save_all_results when the
\* database rejects the INSERT of item k
SavedCount(k) ==
    SaveOutcome(dbProducts, dbPrices, SavingStore, all_results[SavingStore],
                k, autoflush).saved_count

\* C23: when the ledger write of one (product, store) pair fails while a
\* batch is saved, the rows of the other pairs of the batch are persisted
\* all the same, and the saved count is the number of items less the
\* failed pair
C23_WriteFailureIsolated ==
    [][ \A k \in 1..MaxBatch :
          save_all_results_store(k) =>
            LET items == all_results[SavingStore]
            IN /\ \A j \in 1..Len(items) :
                     items[j].name # items[k].name =>
                        PriceRow(items[j].name, SavingStore, items[j])
                            \in dbPrices'
               /\ SavedCount(k) = Len(items) - 1 ]_vars

\* ---------------------------------------------------------------- C24
\* a pending write of the batch is not lost by a step: it is still pending
\* or it is in the database
Kept(dirty, committed, o) ==
    dirty[o] # Clean =>
        \/ dirty'[o] = dirty[o]
        \/ committed'[o] = dirty[o][1]

\* C24: every store pipeline of a batch writes in a transaction of its own:
\* a failed commit or a rollback while the results of one store are saved
\* discards neither the status update, nor the last_scraped update, nor
\* the price rows of another store
C24_FailedSaveKeepsOtherStores ==
    [][ \A k \in 1..MaxBatch :
          save_all_results_store(k) =>
            \A o \in Stores \ {SavingStore} :
               /\ Kept(bObjStatus, dbStatus, o)
               /\ Kept(bObjLast, dbLast, o)
               /\ { r \in dbPrices : r.store = o } \subseteq dbPrices' ]_vars

\* ---------------------------------------------------------------- C25
\* the number of items the adapter of store s found
ItemsFound(s) == IF adapterOut[s] = "ok" THEN Len(adapterItems[s]) ELSE 0

\* the number of items found by the stores of a set
RECURSIVE TotalFound(_)
TotalFound(S) ==
    IF S = {} THEN 0
    ELSE LET s == CHOOSE x \in S : TRUE
         IN ItemsFound(s) + TotalFound(S \ {s})

\* C25: the map scrape_all_stores returns has exactly one entry for each
\* attempted store, also for a store that yielded no item, and the summary
\* of the batch task reports for each of them the number of items found and
\* as total_products the sum of these numbers
C25_SummaryPerStore ==
    bpc = "returned" =>
        LET summary == scrape_all_stores_task(bRet)
        IN /\ DOMAIN bRet = Attempted
           /\ DOMAIN summary.results = Attempted
           /\ \A s \in Attempted : summary.results[s] = ItemsFound(s)
           /\ summary.stores_scraped = Cardinality(Attempted)
           /\ summary.total_products = TotalFound(Attempted)

\* a batch has returned in which one store yielded two items and another
\* store none
C25_Witness ==
    /\ bpc = "returned"
    /\ \E s \in Attempted : adapterOut[s] = "ok" /\ adapterItems[s] = <<>>
    /\ \E s \in Attempted : Len(adapterItems[s]) = 2
    /\ scrape_all_stores_task(bRet).total_products = 2

\* ---------------------------------------------------------------- C26
\* C26: in the map a batch returns, the entry of a store whose adapter
\* failed is a failure marker: it differs from the entry of a store whose
\* adapter returned no item
C26_FailureMarkerDistinct ==
    bpc = "returned" =>
        \A s \in DOMAIN bRet : \A o \in DOMAIN bRet :
            (/\ adapterOut[s] = "raised"
             /\ adapterOut[o] = "ok"
             /\ adapterItems[o] = <<>>) => bRet[s] # bRet[o]

\* ---------------------------------------------------------------- C27
\* the scenario has been processed for store sStore
ScenarioProcessed ==
    /\ spc = "returned"
    /\ sPath = "ok"
    /\ sProducts = ScenarioItems

\* C27: after the store of the scenario has been processed there is one
\* current price row for (Cucumbers, S), at 12.50, and one history record
\* of that pair; Unknown Widget has produced no row; the status of S is
\* idle again
C27_EndToEnd ==
    ScenarioProcessed =>
        /\ { r \in dbPrices : r.store = sStore }
             = { [product |-> Cucumbers, store |-> sStore, price |-> 5,
                  is_available |-> TRUE] }
        /\ Cardinality({ k \in DOMAIN dbHistory :
                          /\ dbHistory[k].product = Cucumbers
                          /\ dbHistory[k].store = sStore
                          /\ dbHistory[k].price = 5 }) = 1
        /\ \A k \in DOMAIN dbHistory : dbHistory[k].product # UnknownWidget
        /\ \A r \in dbPrices : r.product # UnknownWidget
        /\ dbStatus[sStore] = "idle"

\* the part of C27 that holds: the status of S goes idle, scraping, idle
C27_StatusPath ==
    /\ ScenarioProcessed => dbStatus[sStore] = "idle"
    /\ spc \in {"inflight", "save"} => dbStatus[sStore] = "scraping"

\* ---------------------------------------------------------------- C28
\* some keyword of the list matches the name at word boundaries
AnyMatchesAtWordBoundaries(keywords, name) ==
    \E k \in 1..Len(keywords) : MatchesAtWordBoundaries(keywords[k], name)

\* C28: classify is total with range {"A", "B"}: a call returns for every
\* name, and it returns "A" whenever no keyword of list B matches the name
\* at word boundaries, whether a keyword of list A matches or none does
C28_DefaultsToA ==
    /\ fnRet = <<>> => ENABLED call_classify
    /\ fnRet # <<>> =>
          /\ fnRet[1] \in {"A", "B"}
          /\ ~AnyMatchesAtWordBoundaries(fnArgs.category_keywords.B,
                                         fnArgs.product_name)
                => fnRet[1] = "A"

\* classify has returned "A" for a name that holds a keyword of list B
\* inside a longer word and no keyword of list A
C28_Witness ==
    /\ fnRet = <<"A">>
    /\ \E k \in 1..Len(fnArgs.category_keywords.B) :
          SubstringIgnoringCase(fnArgs.category_keywords.B[k],
                                fnArgs.product_name)
    /\ ~AnyMatchesAtWordBoundaries(fnArgs.category_keywords.B,
                                   fnArgs.product_name)
    /\ ~AnyMatchesAtWordBoundaries(fnArgs.category_keywords.A,
                                   fnArgs.product_name)

\* ---------------------------------------------------------------- C29
\* the status values the core assigns
AssignedStatusValues == {"idle", "scraping", "offline"}

\* C29: the stores are created idle, and in every reachable state the
\* status of every store, committed or pending in a session of the
\* manager, is idle, scraping or offline; GET /status counts no store as
\* online
C29_NeverOnline ==
    /\ \A s \in Stores :
          /\ dbStatus[s] \in AssignedStatusValues
          /\ bObjStatus[s] # Clean => bObjStatus[s][1] \in AssignedStatusValues
    /\ sObjStatus # Clean => sObjStatus[1] \in AssignedStatusValues
    /\ Cardinality({ s \in Stores :
                        get_scraping_status[s].status = "online" }) = 0

\* a batch has left one store offline and another idle with a new
\* last_scraped, and a trigger has set that one to scraping again
C29_Witness ==
    /\ bpc = "returned"
    /\ \E s \in Stores : \E o \in Stores :
          /\ dbStatus[s] = "offline"
          /\ dbStatus[o] = "scraping"
          /\ dbLast[o] # NoTime

\* ---------------------------------------------------------------- C30
\* the adapter call of the running scrape of store s has returned
\* successfully
AdapterReturned(s) ==
    \/ adapterOut[s] = "ok"
    \/ sStore = s /\ sPath = "ok"

\* C30: last_scraped of a store changes only when the adapter call for
\* that store returned successfully; an adapter failure, a skipped store, a
\* trigger and a stop leave it as it was, in scrape_all_stores and in
\* scrape_single_store alike
C30_LastScrapedOnlyOnSuccess ==
    [][ \A s \in Stores :
          dbLast'[s] # dbLast[s] => AdapterReturned(s) ]_vars

\* the part of C30 that holds: scrape_all_stores, trigger and stop
C30_BatchLastScraped ==
    [][ \A s \in Stores :
          (dbLast'[s] # dbLast[s] /\ ~scrape_single_store_return)
              => AdapterReturned(s) ]_vars

\* ---------------------------------------------------------------- C31
\* the adapter of every store a finished scrape attempted was invoked once
InvokedOnce ==
    /\ \A s \in Stores : invoked[s] <= 1
    /\ sInvoked <= 1
    /\ bpc = "returned" => \A s \in Range(store_names) : invoked[s] = 1
    /\ (spc = "returned" /\ sPath \in {"ok", "raised"}) => sInvoked = 1

\* C31: in one batch or single-store scrape the adapter of every attempted
\* store is invoked exactly once, a failure is not retried, and a store
\* that is offline leaves that status only when a new attempt sets it to
\* scraping
C31_NoRetryStaysOffline ==
    [][ /\ InvokedOnce'
        /\ \A s \in Stores :
             (dbStatus[s] = "offline" /\ dbStatus'[s] # "offline")
                 => dbStatus'[s] = "scraping" ]_vars

\* the part of C31 that holds: one invocation for each attempted store
C31_InvokedOnce == InvokedOnce

\* the part of C31 that holds: in a batch an offline store stays offline
C31_BatchStaysOffline ==
    [][ \A s \in Stores :
          (dbStatus[s] = "offline" /\ dbStatus'[s] # "offline"
             /\ ~scrape_single_store_return)
              => dbStatus'[s] = "scraping" ]_vars

\* ---------------------------------------------------------------- C32
\* every background task queued by the API has been started and has finished
TriggeredScrapesFinished ==
    /\ taskRuns > 0
    /\ bgTasks = {}
    /\ bpc \in {"idle", "returned"}
    /\ spc \in {"idle", "returned"}

\* C32: after a trigger, for all stores or for one, and once the background
\* scrape it started has finished, no store is left with status scraping,
\* the active stores with a missing or unknown scraper_module included
C32_NoStoreLeftScraping ==
    TriggeredScrapesFinished => \A s \in Stores : dbStatus[s] # "scraping"

\* the stores the manager can scrape are not left scraping
C32_ResolvableNotLeftScraping ==
    TriggeredScrapesFinished =>
        \A s \in Stores : Resolvable(s) => dbStatus[s] # "scraping"

\* ---------------------------------------------------------------- C33
\* the adapter runs in flight for store s: one of the batch, one of the
\* single-store scrape
AdapterRuns(s) ==
    { r \in InFlight : r[2] = s }

\* C33: at most one scrape task per store is in flight at a time: a trigger,
\* refresh or scheduled batch issued while a store's status is scraping does
\* not start a second concurrent adapter run for that store
C33_OneRunPerStore ==
    \A s \in Stores : Cardinality(AdapterRuns(s)) <= 1

\* ---------------------------------------------------------------- C34
\* the Price rows of the saving store that the step leaves in the database
\* for the items of the batch
RowsOfBatch ==
    { r \in dbPrices' :
        /\ r.store = SavingStore
        /\ \E j \in 1..Len(all_results[SavingStore]) :
              r = PriceRow(all_results[SavingStore][j].name, SavingStore,
                           all_results[SavingStore][j]) }

\* C34: the count _save_store_results returns, which _save_all_results sums,
\* is the number of price rows durably committed: it is 0 when the final
\* commit fails and is rolled back
C34_CountIsCommittedRows ==
    [][ \A k \in 0..MaxBatch :
          save_all_results_store(k) =>
            SavedCount(k) = IF k = 0 THEN Cardinality(RowsOfBatch) ELSE 0 ]_vars

\* when the commit succeeds the count is the number of rows committed
C34_CountWhenCommitted ==
    [][ save_all_results_store(0) =>
            SavedCount(0) = Cardinality(RowsOfBatch) ]_vars

\* a rejected INSERT leaves the price table as it was
C34_RolledBack ==
    [][ \A k \in 1..MaxBatch :
          save_all_results_store(k) => dbPrices' = dbPrices ]_vars

\* ---------------------------------------------------------------- C35
\* no two rows of the Product table have the same name
OnePerName(products) ==
    \A i, j \in 1..Len(products) :
        products[i].name = products[j].name => i = j

\* C35: the save step of the manager is find-or-create on the exact product
\* name: after any sequence of saves there is at most one Product row per
\* scraped name, an existing Product is reused as it is, and a Product is
\* created only when no Product has that exact name
C35_FindOrCreate ==
    [][ /\ OnePerName(dbProducts')
        /\ Len(dbProducts) <= Len(dbProducts')
        /\ SubSeq(dbProducts', 1, Len(dbProducts)) = dbProducts
        /\ \A i \in (Len(dbProducts) + 1)..Len(dbProducts') :
              /\ \A j \in 1..Len(dbProducts) :
                    dbProducts[j].name # dbProducts'[i].name
              /\ dbProducts'[i].keywords = Lower(dbProducts'[i].name) ]_vars

\* two stores were saved with items of the same names, and the second save
\* found the Products the first one created
C35_Witness ==
    /\ Len(dbProducts) = 2
    /\ \E r1, r2 \in dbPrices :
          r1.product = r2.product /\ r1.store # r2.store

\* ---------------------------------------------------------------- C36
\* the tables and the store columns a scrape writes
Rows == <<dbStatus, dbLast, dbProducts, dbPrices, dbHistory>>

\* C36: search_product_across_stores queries only the active stores with a
\* resolvable adapter, returns an empty list for a store whose search
\* raises, the results of the other stores being what their adapters
\* returned, and leaves every store's status and last_scraped and all
\* product, price and history rows unchanged
C36_SearchReadsOnly ==
    [][ /\ \A s \in Stores :
              qTask'[s] # "none" =>
                  /\ stores[s].is_active
                  /\ stores[s].scraper_module \in scrapers
        /\ qpc' = "returned" =>
              /\ DOMAIN qRet' =
                    { s \in Stores : /\ stores[s].is_active
                                     /\ stores[s].scraper_module \in scrapers }
              /\ \A s \in DOMAIN qRet' :
                    qRet'[s] = IF qOut'[s] = "raised" THEN <<>> ELSE qItems'[s]
        /\ SearchNext => UNCHANGED Rows ]_vars

\* a search has returned while the database holds scraped rows: the search
\* of one store raised, the other store's search found items
C36_Witness ==
    /\ qpc = "returned"
    /\ dbPrices # {}
    /\ \E s, o \in DOMAIN qRet :
          /\ qOut[s] = "raised"
          /\ qRet[s] = <<>>
          /\ qOut[o] = "ok"
          /\ qRet[o] # <<>>

\* ---------------------------------------------------------------- C37
\* the keywords of a Product as _find_matching_product compares them
StrippedKeywords(product) ==
    LET pieces == Split(Lower(product.keywords), Comma)
    IN { Strip(pieces[k]) : k \in 1..Len(pieces) }

\* C37: _find_matching_product never matches on an empty keyword: a Product
\* whose keyword string is empty, or holds an empty element between commas,
\* is returned only if one of its non-empty keywords is a substring of the
\* scraped name
C37_NoMatchOnEmptyKeyword ==
    (fnRet # <<>> /\ fnRet[1] # NoProduct) =>
        \E keyword \in StrippedKeywords(fnArgs.products[fnRet[1]]) :
            /\ keyword # <<>>
            /\ Contains(keyword, Lower(fnArgs.scraped_name))

\* a Product without an empty keyword is returned only for a name that
\* contains one of its keywords
C37_MatchOnKeyword ==
    (fnRet # <<>> /\ fnRet[1] # NoProduct) =>
        \E keyword \in StrippedKeywords(fnArgs.products[fnRet[1]]) :
            Contains(keyword, Lower(fnArgs.scraped_name))

\* ---------------------------------------------------------------- C38
\* the records of the window captured on a date in a store
RecordsOn(date, store) ==
    { i \in 1..Len(TrendWindow) :
        /\ DateOf(TrendWindow[i].recorded_at) = date
        /\ TrendWindow[i].store = store }

\* the entry shows a record of its date and store that no other record of
\* that date and store is later than
ShowsLatest(entry) ==
    \E i \in RecordsOn(entry.date, entry.store) :
        /\ entry.price = TrendWindow[i].price
        /\ entry.is_available = TrendWindow[i].is_available
        /\ \A j \in RecordsOn(entry.date, entry.store) :
              TrendWindow[j].recorded_at <= TrendWindow[i].recorded_at

\* one entry for every date and store of the window, each showing the
\* latest record
GroupedLatest(trends) ==
    LET entries == TrendEntries(trends)
    IN /\ \A i, j \in 1..Len(entries) :
             (entries[i].date = entries[j].date
                 /\ entries[i].store = entries[j].store) => i = j
       /\ \A i \in 1..Len(entries) : ShowsLatest(entries[i])
       /\ \A i \in 1..Len(TrendWindow) :
             \E j \in 1..Len(entries) :
                 /\ entries[j].date = DateOf(TrendWindow[i].recorded_at)
                 /\ entries[j].store = TrendWindow[i].store

=============================================================================
